---- MODULE Spec2Model ----
(***************************************************************************)
(* Lead scoring engine of lead-agent-service: the dual scoring function    *)
(* scoreLeadDual, its signal scorers, the dimension aggregator and the     *)
(* tier classifier (apps/lead-agent-service/src/services/scoring.ts).      *)
(*                                                                         *)
(* A JavaScript string is a sequence of one-character strings, so that     *)
(* toLowerCase, includes and split are computed on the characters.  The    *)
(* value undefined is the one-element sequence Undefined, which is not a   *)
(* string.  A weight is a number of hundredths (100 is the weight 1.0).    *)
(***************************************************************************)
EXTENDS Integers, Sequences, FiniteSets, TLC

VARIABLES
    rawLead,        \* DualScoringInput.rawLead being prepared by the caller
    enrichedLead,   \* DualScoringInput.enrichedLead being prepared
    tenantConfig,   \* DualScoringInput.tenantConfig, NullConfig when not given
    edits,          \* number of fields the caller has set so far
    call,           \* the DualScoringInput of the scoring call made, or NoCall
    result,         \* the ScoringResult returned, or NoResult
    dimInput,       \* breakdown map handed to computeDimensions
    dimOutput,      \* DimensionBreakdown returned, or NoDimensions
    tierInput,      \* [score, hot, warm] handed to determineTier
    tierOutput,     \* LeadTier returned, or NoTier
    mergeOriginal,  \* first argument of mergeEnrichment being prepared
    mergePartial,   \* second argument of mergeEnrichment being prepared
    mergeEdits,     \* number of fields set in the two arguments so far
    merged,         \* the records returned by the successive merges
    rawPayload,     \* the request body handed to detectAndMap
    payloadEdits,   \* number of properties set in the payload so far
    classified,     \* the result of detectAndMap, or NoResult
    bandInput,      \* [count, revenue] handed to the band functions
    bandOutput,     \* the bands of the two mappers, or NoResult
    supabaseConfigured, \* config.supabaseUrl and config.supabaseServiceKey are set
    tenantScoringConfig, \* req.tenantConfig of each request, set by optionalTenantAuth
    reqs,           \* the requests to POST /enrich-lead: position and locals
    enrichCalls,    \* the requests for which enrichLead has been called
    leadsTable,     \* table leads: external id -> row
    scoringRunsTable, \* table scoring_runs: the set of its rows
    baseWeights     \* the module-level object BASE_WEIGHTS of scoring.ts

scoreVars == <<rawLead, enrichedLead, tenantConfig, edits, call, result>>
dimVars == <<dimInput, dimOutput>>
tierVars == <<tierInput, tierOutput>>
mergeVars == <<mergeOriginal, mergePartial, mergeEdits, merged>>
classVars == <<rawPayload, payloadEdits, classified>>
bandVars == <<bandInput, bandOutput>>
engineVars == <<scoreVars, dimVars, tierVars>>
\* the variables outside the scoring engine
pipeVars == <<supabaseConfigured, tenantScoringConfig, reqs, enrichCalls,
              leadsTable, scoringRunsTable, baseWeights>>
serviceVars == <<mergeVars, classVars, bandVars, pipeVars>>
vars == <<rawLead, enrichedLead, tenantConfig, edits, call, result,
          dimInput, dimOutput, tierInput, tierOutput,
          mergeOriginal, mergePartial, mergeEdits, merged,
          rawPayload, payloadEdits, classified, bandInput, bandOutput,
          supabaseConfigured, tenantScoringConfig, reqs, enrichCalls,
          leadsTable, scoringRunsTable, baseWeights>>

----------------------------------------------------------------------------
(* Bounds of the exploration *)

MaxEdits == 1
MaxKeys == 3
MaxMergeEdits == 1
MaxPayloadEdits == 1
MaxRequests == 2

----------------------------------------------------------------------------
(* JavaScript values *)

Undefined == <<"undefined">>
Null == <<"null">>

\* truthiness of a value of type string | undefined | null
Truthy(v) == v # Undefined /\ v # Null /\ v # <<>>

UpperToLower ==
    [c \in {"A","B","C","D","E","F","G","H","I","J","K","L","M",
            "N","O","P","Q","R","S","T","U","V","W","X","Y","Z"} |->
        CASE c = "A" -> "a" [] c = "B" -> "b" [] c = "C" -> "c" [] c = "D" -> "d"
          [] c = "E" -> "e" [] c = "F" -> "f" [] c = "G" -> "g" [] c = "H" -> "h"
          [] c = "I" -> "i" [] c = "J" -> "j" [] c = "K" -> "k" [] c = "L" -> "l"
          [] c = "M" -> "m" [] c = "N" -> "n" [] c = "O" -> "o" [] c = "P" -> "p"
          [] c = "Q" -> "q" [] c = "R" -> "r" [] c = "S" -> "s" [] c = "T" -> "t"
          [] c = "U" -> "u" [] c = "V" -> "v" [] c = "W" -> "w" [] c = "X" -> "x"
          [] c = "Y" -> "y" [] c = "Z" -> "z"]

\* String.prototype.toLowerCase
toLowerCase(s) ==
    [i \in 1..Len(s) |->
        IF s[i] \in DOMAIN UpperToLower THEN UpperToLower[s[i]] ELSE s[i]]

\* String.prototype.includes
includes(s, sub) ==
    \E i \in 0..(Len(s) - Len(sub)) : SubSeq(s, i + 1, i + Len(sub)) = sub

\* Array.prototype.some(k => s.includes(k)) over a keyword list
someIncluded(list, s) == \E i \in 1..Len(list) : includes(s, list[i])

\* Array.prototype.some(e => s.includes(e.toLowerCase())) over a tenant list
someIncludedLower(list, s) ==
    \E i \in 1..Len(list) : includes(s, toLowerCase(list[i]))

\* Array.prototype.includes on a list of strings
listIncludes(list, s) == \E i \in 1..Len(list) : list[i] = s

\* s.split("@")[1] : the text between the first and the second "@",
\* undefined when s has no "@"
splitAt1(s) ==
    LET ats == {i \in 1..Len(s) : s[i] = "@"} IN
    IF ats = {} THEN Undefined
    ELSE LET first == CHOOSE i \in ats : \A j \in ats : i <= j
             later == {i \in ats : i > first}
             stop == IF later = {} THEN Len(s) + 1
                     ELSE CHOOSE i \in later : \A j \in later : i <= j
         IN  SubSeq(s, first + 1, stop - 1)

\* Math.round(points * weight) for a weight given in hundredths:
\* Math.round rounds to the nearest integer, a half towards +Infinity
WeightUnit == 100
MathRound(num, den) == (2 * num + den) \div (2 * den)
\* roundWeighted dropping the fraction instead of rounding
roundWeightedTruncating(points, weight) == (points * weight) \div WeightUnit

roundWeighted(points, weight) == MathRound(points * weight, WeightUnit)

Min(a, b) == IF a < b THEN a ELSE b
Max(a, b) == IF a > b THEN a ELSE b

RECURSIVE SumOver(_, _)
\* sum of f[k] for k in the finite set S
SumOver(f, S) ==
    IF S = {} THEN 0
    ELSE LET k == CHOOSE x \in S : TRUE IN f[k] + SumOver(f, S \ {k})

RECURSIVE Concat(_)
\* concatenation of a sequence of sequences
Concat(ss) == IF ss = <<>> THEN <<>> ELSE Head(ss) \o Concat(Tail(ss))

----------------------------------------------------------------------------
(* Tables of scoring.ts *)

SCORING_VERSION == "v1"

SignalKeys == {"email_domain", "company_size", "revenue", "seniority",
               "industry", "lead_source", "use_case", "urgency", "deal_band"}

BASE_WEIGHTS == [k \in SignalKeys |-> WeightUnit]

DIMENSION_MAPPING ==
    [k \in SignalKeys \cup {"region_penalty"} |->
        CASE k \in {"email_domain", "company_size", "revenue", "seniority",
                    "industry", "region_penalty"} -> "fit"
          [] k \in {"lead_source", "use_case", "deal_band"} -> "intent"
          [] k = "urgency" -> "timing"]

FREE_EMAIL_DOMAINS ==
    << <<"g", "m", "a", "i", "l", ".", "c", "o", "m">>, <<"y", "a", "h", "o", "o", ".", "c", "o", "m">>, <<"o", "u", "t", "l", "o", "o", "k", ".", "c", "o", "m">>, <<"h", "o", "t", "m", "a", "i", "l", ".", "c", "o", "m">>,
       <<"i", "c", "l", "o", "u", "d", ".", "c", "o", "m">>, <<"a", "o", "l", ".", "c", "o", "m">>, <<"p", "r", "o", "t", "o", "n", ".", "m", "e">>, <<"p", "r", "o", "t", "o", "n", "m", "a", "i", "l", ".", "c", "o", "m">>,
       <<"l", "i", "v", "e", ".", "c", "o", "m">>, <<"m", "s", "n", ".", "c", "o", "m">>, <<"y", "m", "a", "i", "l", ".", "c", "o", "m">> >>

HIGH_VALUE_INDUSTRIES ==
    << <<"t", "e", "c", "h", "n", "o", "l", "o", "g", "y">>, <<"s", "o", "f", "t", "w", "a", "r", "e">>, <<"f", "i", "n", "a", "n", "c", "e">>, <<"h", "e", "a", "l", "t", "h", "c", "a", "r", "e">>, <<"s", "a", "a", "s">>,
       <<"f", "i", "n", "t", "e", "c", "h">>, <<"b", "i", "o", "t", "e", "c", "h">>, <<"a", "i">>, <<"m", "a", "c", "h", "i", "n", "e", " ", "l", "e", "a", "r", "n", "i", "n", "g">> >>

MEDIUM_VALUE_INDUSTRIES ==
    << <<"m", "a", "n", "u", "f", "a", "c", "t", "u", "r", "i", "n", "g">>, <<"r", "e", "t", "a", "i", "l">>, <<"c", "o", "n", "s", "u", "l", "t", "i", "n", "g">>, <<"p", "r", "o", "f", "e", "s", "s", "i", "o", "n", "a", "l", " ", "s", "e", "r", "v", "i", "c", "e", "s">>,
       <<"m", "e", "d", "i", "a">>, <<"e", "d", "u", "c", "a", "t", "i", "o", "n">>, <<"r", "e", "a", "l", " ", "e", "s", "t", "a", "t", "e">> >>

HIGH_QUALITY_SOURCES ==
    << <<"r", "e", "f", "e", "r", "r", "a", "l">>, <<"p", "a", "r", "t", "n", "e", "r">>, <<"e", "v", "e", "n", "t">>, <<"c", "o", "n", "f", "e", "r", "e", "n", "c", "e">>, <<"d", "e", "m", "o", " ", "r", "e", "q", "u", "e", "s", "t">>,
       <<"i", "n", "b", "o", "u", "n", "d">> >>

MEDIUM_QUALITY_SOURCES ==
    << <<"w", "e", "b", "s", "i", "t", "e">>, <<"w", "e", "b", "i", "n", "a", "r">>, <<"c", "o", "n", "t", "e", "n", "t", " ", "d", "o", "w", "n", "l", "o", "a", "d">>, <<"o", "r", "g", "a", "n", "i", "c">>, <<"s", "e", "o">> >>

cSuiteKeywords ==
    << <<"c", "e", "o">>, <<"c", "t", "o">>, <<"c", "f", "o">>, <<"c", "o", "o">>, <<"c", "m", "o">>, <<"c", "h", "i", "e", "f">>, <<"f", "o", "u", "n", "d", "e", "r">>,
       <<"o", "w", "n", "e", "r">>, <<"p", "r", "e", "s", "i", "d", "e", "n", "t">> >>
vpKeywords == << <<"v", "p">>, <<"v", "i", "c", "e", " ", "p", "r", "e", "s", "i", "d", "e", "n", "t">>, <<"h", "e", "a", "d", " ", "o", "f">> >>
directorKeywords == << <<"d", "i", "r", "e", "c", "t", "o", "r">> >>
managerKeywords == << <<"m", "a", "n", "a", "g", "e", "r">>, <<"l", "e", "a", "d">>, <<"s", "e", "n", "i", "o", "r">> >>

\* a lookup table[value] ?? 0 : the points of a listed value, 0 otherwise
lookup(table, v) ==
    IF \E e \in table : e[1] = v
    THEN (CHOOSE e \in table : e[1] = v)[2]
    ELSE 0

employeeBandScores ==
    { << <<"1", "-", "1", "0">>, 5 >>, << <<"1", "1", "-", "5", "0">>, 10 >>, << <<"5", "1", "-", "2", "0", "0">>, 15 >>,
      << <<"2", "0", "1", "-", "1", "0", "0", "0">>, 20 >>, << <<"1", "0", "0", "0", "+">>, 25 >> }

revenueBandScores ==
    { << <<"<", "1", "M">>, 5 >>, << <<"1", "-", "1", "0", "M">>, 10 >>, << <<"1", "0", "-", "5", "0", "M">>, 15 >>,
      << <<"5", "0", "-", "2", "5", "0", "M">>, 20 >>, << <<"2", "5", "0", "M", "+">>, 25 >> }

seniorityScores ==
    { << <<"I", "C">>, 5 >>, << <<"M", "a", "n", "a", "g", "e", "r">>, 10 >>, << <<"D", "i", "r", "e", "c", "t", "o", "r">>, 15 >>,
      << <<"V", "P">>, 20 >>, << <<"C", "-", "L", "e", "v", "e", "l">>, 30 >> }

urgencyScores ==
    { << <<"E", "x", "p", "l", "o", "r", "i", "n", "g">>, 5 >>, << <<"T", "h", "i", "s", "Q", "u", "a", "r", "t", "e", "r">>, 10 >>, << <<"T", "h", "i", "s", "M", "o", "n", "t", "h">>, 20 >> }

dealScores ==
    { << <<"S", "m", "a", "l", "l">>, 5 >>, << <<"M", "i", "d">>, 10 >>, << <<"E", "n", "t", "e", "r", "p", "r", "i", "s", "e">>, 15 >> }

REGION_PENALTY == -20

\* getDefaultScoringConfig()
getDefaultScoringConfig ==
    [scoring_version |-> "v1",
     weight_overrides |-> <<>>,
     priority_industries |-> <<>>,
     excluded_regions |-> <<>>,
     priority_use_cases |-> <<>>,
     hot_threshold |-> 70,
     warm_threshold |-> 40]

----------------------------------------------------------------------------
(* Records *)

EmptyMap == [k \in {} |-> 0]

\* UniversalLeadInput: every field is a string or undefined; the object
\* company_tech_stack_summary is written as the text of its JSON form
LeadFields ==
    {"company_domain", "company_name", "company_industry",
     "company_employee_band", "company_revenue_band", "company_region",
     "company_tech_stack_summary",
     "contact_email", "contact_first_name", "contact_last_name",
     "contact_role_function", "contact_role_seniority", "contact_title_raw",
     "contact_geo", "contact_phone", "primary_use_case",
     "estimated_deal_band", "urgency_band", "lead_source"}

NullConfig == [isNull |-> TRUE]
NoCall == [none |-> TRUE]
NoResult == [none |-> TRUE]
NoDimensions == [none |-> TRUE]
NoTier == "none"

\* one entry of the reasons list: the template text and the values
\* interpolated into it
Reason(text, value, points) == [text |-> text, value |-> value, points |-> points]

\* reasons.push(r) in both phases
pushInEveryPhase(phase, r) == <<r>>

\* reasons.push(r) guarded by phase === "enriched"
pushIfEnriched(phase, r) == IF phase = "enriched" THEN <<r>> ELSE <<>>

Scored(score, reasons) == [score |-> score, reasons |-> reasons]

----------------------------------------------------------------------------
(* Individual scoring functions: each returns its points and the reasons   *)
(* it pushes                                                               *)

\* scoreEmailDomain comparing the domain without lowercasing it
scoreEmailDomainCaseSensitive(input, phase) ==
    IF ~Truthy(input.contact_email) THEN Scored(0, <<>>)
    ELSE LET part == splitAt1(input.contact_email)
             domain == IF part = Undefined THEN <<>> ELSE part
         IN  IF domain = <<>> THEN Scored(0, <<>>)
             ELSE IF listIncludes(FREE_EMAIL_DOMAINS, domain)
             THEN Scored(0, pushIfEnriched(phase, Reason("Free email", domain, 0)))
             ELSE Scored(15, pushIfEnriched(phase, Reason("Corporate email", domain, 15)))

scoreEmailDomain(input, phase) ==
    IF ~Truthy(input.contact_email) THEN Scored(0, <<>>)
    ELSE LET part == splitAt1(input.contact_email)
             domain == IF part = Undefined THEN <<>> ELSE toLowerCase(part)
         IN  IF domain = <<>> THEN Scored(0, <<>>)
             ELSE IF listIncludes(FREE_EMAIL_DOMAINS, domain)
             THEN Scored(0, pushIfEnriched(phase, Reason("Free email", domain, 0)))
             ELSE Scored(15, pushIfEnriched(phase, Reason("Corporate email", domain, 15)))

\* the common shape of the band scorers: table[value] ?? 0, a reason when
\* the points are positive
scoreBand(value, table, text, phase) ==
    IF ~Truthy(value) THEN Scored(0, <<>>)
    ELSE LET score == lookup(table, value) IN
         Scored(score,
                IF score > 0 THEN pushIfEnriched(phase, Reason(text, value, score))
                ELSE <<>>)

scoreCompanySize(input, phase) ==
    scoreBand(input.company_employee_band, employeeBandScores, "Company size", phase)

scoreRevenue(input, phase) ==
    scoreBand(input.company_revenue_band, revenueBandScores, "Revenue", phase)

scoreSeniority(input, phase) ==
    IF Truthy(input.contact_role_seniority)
    THEN scoreBand(input.contact_role_seniority, seniorityScores, "Seniority", phase)
    ELSE IF ~Truthy(input.contact_title_raw) THEN Scored(0, <<>>)
    ELSE LET title == input.contact_title_raw
             titleLower == toLowerCase(title)
         IN  IF someIncluded(cSuiteKeywords, titleLower)
             THEN Scored(30, pushIfEnriched(phase, Reason("Title -> C-Level", title, 30)))
             ELSE IF someIncluded(vpKeywords, titleLower)
             THEN Scored(20, pushIfEnriched(phase, Reason("Title -> VP", title, 20)))
             ELSE IF someIncluded(directorKeywords, titleLower)
             THEN Scored(15, pushIfEnriched(phase, Reason("Title -> Director", title, 15)))
             ELSE IF someIncluded(managerKeywords, titleLower)
             THEN Scored(10, pushIfEnriched(phase, Reason("Title -> Manager", title, 10)))
             ELSE Scored(0, <<>>)

\* scoreIndustry consulting the tenant's priority list after the standard lists
scoreIndustryStandardFirst(input, priorityIndustries, phase) ==
    IF ~Truthy(input.company_industry) THEN Scored(0, <<>>)
    ELSE LET industry == input.company_industry
             industryLower == toLowerCase(industry)
         IN  IF someIncluded(HIGH_VALUE_INDUSTRIES, industryLower)
             THEN Scored(15, pushIfEnriched(phase, Reason("High-value industry", industry, 15)))
             ELSE IF someIncluded(MEDIUM_VALUE_INDUSTRIES, industryLower)
             THEN Scored(8, pushIfEnriched(phase, Reason("Industry", industry, 8)))
             ELSE IF Len(priorityIndustries) > 0
                /\ someIncludedLower(priorityIndustries, industryLower)
             THEN Scored(20, pushIfEnriched(phase, Reason("Priority industry", industry, 20)))
             ELSE Scored(0, <<>>)

scoreIndustry(input, priorityIndustries, phase) ==
    IF ~Truthy(input.company_industry) THEN Scored(0, <<>>)
    ELSE LET industry == input.company_industry
             industryLower == toLowerCase(industry)
         IN  IF Len(priorityIndustries) > 0
                /\ someIncludedLower(priorityIndustries, industryLower)
             THEN Scored(20, pushIfEnriched(phase, Reason("Priority industry", industry, 20)))
             ELSE IF someIncluded(HIGH_VALUE_INDUSTRIES, industryLower)
             THEN Scored(15, pushIfEnriched(phase, Reason("High-value industry", industry, 15)))
             ELSE IF someIncluded(MEDIUM_VALUE_INDUSTRIES, industryLower)
             THEN Scored(8, pushIfEnriched(phase, Reason("Industry", industry, 8)))
             ELSE Scored(0, <<>>)

scoreLeadSource(input, phase) ==
    IF ~Truthy(input.lead_source) THEN Scored(0, <<>>)
    ELSE LET source == input.lead_source
             sourceLower == toLowerCase(source)
         IN  IF someIncluded(HIGH_QUALITY_SOURCES, sourceLower)
             THEN Scored(15, pushIfEnriched(phase, Reason("Lead source", source, 15)))
             ELSE IF someIncluded(MEDIUM_QUALITY_SOURCES, sourceLower)
             THEN Scored(8, pushIfEnriched(phase, Reason("Lead source", source, 8)))
             ELSE Scored(0, <<>>)

scoreUseCase(input, priorityUseCases, phase) ==
    IF ~Truthy(input.primary_use_case) THEN Scored(0, <<>>)
    ELSE LET useCase == input.primary_use_case
             useCaseLower == toLowerCase(useCase)
         IN  IF Len(priorityUseCases) > 0
                /\ someIncludedLower(priorityUseCases, useCaseLower)
             THEN Scored(15, pushIfEnriched(phase, Reason("Priority use case", useCase, 15)))
             ELSE Scored(5, pushIfEnriched(phase, Reason("Use case provided", useCase, 5)))

scoreUrgency(input, phase) ==
    scoreBand(input.urgency_band, urgencyScores, "Urgency", phase)

scoreDealBand(input, phase) ==
    scoreBand(input.estimated_deal_band, dealScores, "Deal size", phase)

\* scoreRegion applying the penalty in the enriched phase only
scoreRegionEnrichedOnly(input, excludedRegions, phase) ==
    IF Len(excludedRegions) = 0 \/ phase # "enriched" THEN Scored(0, <<>>)
    ELSE LET region == IF Truthy(input.company_region) THEN input.company_region
                       ELSE input.contact_geo
         IN  IF ~Truthy(region) THEN Scored(0, <<>>)
             ELSE IF someIncludedLower(excludedRegions, toLowerCase(region))
             THEN Scored(REGION_PENALTY,
                         pushIfEnriched(phase, Reason("Excluded region", region, REGION_PENALTY)))
             ELSE Scored(0, <<>>)

scoreRegion(input, excludedRegions, phase) ==
    IF Len(excludedRegions) = 0 THEN Scored(0, <<>>)
    ELSE LET region == IF Truthy(input.company_region) THEN input.company_region
                       ELSE input.contact_geo
         IN  IF ~Truthy(region) THEN Scored(0, <<>>)
             ELSE IF someIncludedLower(excludedRegions, toLowerCase(region))
             THEN Scored(REGION_PENALTY,
                         pushIfEnriched(phase, Reason("Excluded region", region, REGION_PENALTY)))
             ELSE Scored(0, <<>>)

\* determineTier comparing with > instead of >=
determineTierStrict(score, hotThreshold, warmThreshold) ==
    IF score > hotThreshold THEN "Hot"
    ELSE IF score > warmThreshold THEN "Warm"
    ELSE "Cold"

determineTier(score, hotThreshold, warmThreshold) ==
    IF score >= hotThreshold THEN "Hot"
    ELSE IF score >= warmThreshold THEN "Warm"
    ELSE "Cold"

----------------------------------------------------------------------------
(* computeScore, computeDimensions, scoreLeadDual, scoreLead *)

\* { ...BASE_WEIGHTS, ...config.weight_overrides }, a new object built from
\* the module-level object as it is at the time of the call
mergeWeights(overrides) ==
    [k \in DOMAIN baseWeights \cup DOMAIN overrides |->
        IF k \in DOMAIN overrides THEN overrides[k] ELSE baseWeights[k]]

\* one signal of computeScore: its breakdown key, what the scorer returned,
\* the value put in the breakdown and whether the code's condition records it
Signal(key, scored, value, recorded) ==
    [key |-> key, scored |-> scored, value |-> value, recorded |-> recorded]

\* a weighted signal guarded by "score > 0"
weightedSignal(key, scored, weights) ==
    Signal(key, scored, roundWeighted(scored.score, weights[key]), scored.score > 0)

\* the industry signal is guarded by "industryScore !== 0"
industrySignal(scored, weights) ==
    Signal("industry", scored, roundWeighted(scored.score, weights["industry"]),
           scored.score # 0)

\* the region penalty is not weighted and is guarded by "regionPenalty < 0"
regionSignal(scored) ==
    Signal("region_penalty", scored, scored.score, scored.score < 0)

\* scoreSignals applying a weight listed under region_penalty to the penalty
scoreSignalsWeightedRegion(input, config, weights, phase) ==
    << weightedSignal("email_domain", scoreEmailDomain(input, phase), weights),
       weightedSignal("company_size", scoreCompanySize(input, phase), weights),
       weightedSignal("revenue", scoreRevenue(input, phase), weights),
       weightedSignal("seniority", scoreSeniority(input, phase), weights),
       industrySignal(scoreIndustry(input, config.priority_industries, phase), weights),
       weightedSignal("lead_source", scoreLeadSource(input, phase), weights),
       weightedSignal("use_case", scoreUseCase(input, config.priority_use_cases, phase), weights),
       weightedSignal("urgency", scoreUrgency(input, phase), weights),
       weightedSignal("deal_band", scoreDealBand(input, phase), weights),
       LET scored == scoreRegion(input, config.excluded_regions, phase) IN
       Signal("region_penalty", scored,
              IF "region_penalty" \in DOMAIN weights
              THEN roundWeighted(scored.score, weights["region_penalty"])
              ELSE scored.score,
              scored.score < 0) >>

\* the ten steps of computeScore, in the order of the code
scoreSignals(input, config, weights, phase) ==
    << weightedSignal("email_domain", scoreEmailDomain(input, phase), weights),
       weightedSignal("company_size", scoreCompanySize(input, phase), weights),
       weightedSignal("revenue", scoreRevenue(input, phase), weights),
       weightedSignal("seniority", scoreSeniority(input, phase), weights),
       industrySignal(scoreIndustry(input, config.priority_industries, phase), weights),
       weightedSignal("lead_source", scoreLeadSource(input, phase), weights),
       weightedSignal("use_case", scoreUseCase(input, config.priority_use_cases, phase), weights),
       weightedSignal("urgency", scoreUrgency(input, phase), weights),
       weightedSignal("deal_band", scoreDealBand(input, phase), weights),
       regionSignal(scoreRegion(input, config.excluded_regions, phase)) >>

\* totalOf adding the unweighted points of the recorded signals
totalOfUnweighted(signals) ==
    LET idx == {i \in 1..Len(signals) : signals[i].recorded}
        val == [i \in idx |-> signals[i].scored.score]
    IN  SumOver(val, idx)

\* totalScore: the recorded values added up
totalOf(signals) ==
    LET idx == {i \in 1..Len(signals) : signals[i].recorded}
        val == [i \in idx |-> signals[i].value]
    IN  SumOver(val, idx)

\* breakdown: the recorded values under their keys
breakdownOf(signals) ==
    LET idx == {i \in 1..Len(signals) : signals[i].recorded} IN
    [k \in {signals[i].key : i \in idx} |->
        signals[CHOOSE i \in idx : signals[i].key = k].value]

MinScore == 0
MaxScore == 100

\* clampScore without the lower bound
clampScoreNoFloor(totalScore) == Min(MaxScore, totalScore)

\* Math.max(0, Math.min(100, totalScore))
clampScore(totalScore) == Max(MinScore, Min(MaxScore, totalScore))

\* computeScore classifying the unclamped total
computeScoreTierOfTotal(input, config, weights, phase) ==
    LET signals == scoreSignals(input, config, weights, phase)
        finalScore == clampScore(totalOf(signals))
    IN  [score |-> finalScore,
         tier |-> determineTier(totalOf(signals), config.hot_threshold,
                                config.warm_threshold),
         breakdown |-> breakdownOf(signals),
         reasons |-> Concat([i \in 1..Len(signals) |-> signals[i].scored.reasons])]

computeScore(input, config, weights, phase) ==
    LET signals == scoreSignals(input, config, weights, phase)
        finalScore == clampScore(totalOf(signals))
    IN  [score |-> finalScore,
         tier |-> determineTier(finalScore, config.hot_threshold, config.warm_threshold),
         breakdown |-> breakdownOf(signals),
         reasons |-> Concat([i \in 1..Len(signals) |-> signals[i].scored.reasons])]

\* dimensionMaxes with intent set to the sum of its three signals
dimensionMaxesIntentSum == [fit |-> 95, intent |-> 45, timing |-> 20]

dimensionMaxes == [fit |-> 95, intent |-> 35, timing |-> 20]

\* dimensionSum adding the negative values too
dimensionSumSigned(breakdown, dimension) ==
    LET keys == {k \in DOMAIN breakdown :
                    /\ k \in DOMAIN DIMENSION_MAPPING
                    /\ DIMENSION_MAPPING[k] = dimension}
    IN  SumOver(breakdown, keys)

\* dimensionSums[dimension] after the loop over Object.entries(breakdown)
dimensionSum(breakdown, dimension) ==
    LET keys == {k \in DOMAIN breakdown :
                    /\ k \in DOMAIN DIMENSION_MAPPING
                    /\ DIMENSION_MAPPING[k] = dimension
                    /\ breakdown[k] > 0}
    IN  SumOver(breakdown, keys)

\* Math.min(100, Math.round((sum / max) * 100))
normalizeDimension(sum, max) == Min(MaxScore, MathRound(sum * 100, max))

computeDimensions(breakdown) ==
    [d \in {"fit", "intent", "timing"} |->
        normalizeDimension(dimensionSum(breakdown, d), dimensionMaxes[d])]

\* tenantConfig ?? getDefaultScoringConfig()
resolveConfig(config) ==
    IF config = NullConfig THEN getDefaultScoringConfig ELSE config

\* liftOf reporting only improvements
liftNonNegative(enrichedResult, rawResult) ==
    Max(0, enrichedResult.score - rawResult.score)

\* const lift = enrichedResult.score - rawResult.score
liftOf(enrichedResult, rawResult) == enrichedResult.score - rawResult.score

\* scoreLeadDual computing the dimensions from the breakdown of the raw phase
scoreLeadDualDimensionsOfRaw(input) ==
    LET config == resolveConfig(input.tenantConfig)
        weights == mergeWeights(config.weight_overrides)
        rawResult == computeScore(input.rawLead, config, weights, "raw")
        enrichedResult == computeScore(input.enrichedLead, config, weights, "enriched")
    IN  [score |-> enrichedResult.score,
         tier |-> enrichedResult.tier,
         raw_score |-> rawResult.score,
         raw_tier |-> rawResult.tier,
         enriched_score |-> enrichedResult.score,
         enriched_tier |-> enrichedResult.tier,
         lift |-> liftOf(enrichedResult, rawResult),
         scoring_version |-> SCORING_VERSION,
         score_breakdown |-> enrichedResult.breakdown,
         raw_breakdown |-> rawResult.breakdown,
         dimensions |-> computeDimensions(rawResult.breakdown),
         reasons |-> enrichedResult.reasons]

scoreLeadDual(input) ==
    LET config == resolveConfig(input.tenantConfig)
        weights == mergeWeights(config.weight_overrides)
        rawResult == computeScore(input.rawLead, config, weights, "raw")
        enrichedResult == computeScore(input.enrichedLead, config, weights, "enriched")
    IN  [score |-> enrichedResult.score,
         tier |-> enrichedResult.tier,
         raw_score |-> rawResult.score,
         raw_tier |-> rawResult.tier,
         enriched_score |-> enrichedResult.score,
         enriched_tier |-> enrichedResult.tier,
         lift |-> liftOf(enrichedResult, rawResult),
         scoring_version |-> SCORING_VERSION,
         score_breakdown |-> enrichedResult.breakdown,
         raw_breakdown |-> rawResult.breakdown,
         dimensions |-> computeDimensions(enrichedResult.breakdown),
         reasons |-> enrichedResult.reasons]

DualScoringInput(raw, enriched, config) ==
    [rawLead |-> raw, enrichedLead |-> enriched, tenantConfig |-> config]

\* the legacy entry point: one record is both the raw and the enriched lead
scoreLead(input, config) == scoreLeadDual(DualScoringInput(input, input, config))

----------------------------------------------------------------------------
(* Inputs: the leads and tenant configurations the callers pass *)

EmptyLead == [f \in LeadFields |-> Undefined]

\* the leads of the engine's test suite
minimalLead == [EmptyLead EXCEPT !["company_domain"] = <<"e", "x", "a", "m", "p", "l", "e", ".", "c", "o", "m">>]

baseRawLead ==
    [EmptyLead EXCEPT !["company_domain"] = <<"a", "c", "m", "e", ".", "c", "o", "m">>,
                      !["company_name"] = <<"A", "c", "m", "e", " ", "C", "o", "r", "p">>,
                      !["contact_email"] = <<"j", "o", "h", "n", "@", "a", "c", "m", "e", ".", "c", "o", "m">>,
                      !["contact_title_raw"] = <<"S", "a", "l", "e", "s", " ", "M", "a", "n", "a", "g", "e", "r">>,
                      !["company_industry"] = <<"T", "e", "c", "h", "n", "o", "l", "o", "g", "y">>]

testEnrichedLead ==
    [baseRawLead EXCEPT !["company_employee_band"] = <<"2", "0", "1", "-", "1", "0", "0", "0">>,
                        !["company_revenue_band"] = <<"5", "0", "-", "2", "5", "0", "M">>,
                        !["contact_role_seniority"] = <<"M", "a", "n", "a", "g", "e", "r">>,
                        !["company_region"] = <<"U", "S">>,
                        !["lead_source"] = <<"D", "e", "m", "o", " ", "R", "e", "q", "u", "e", "s", "t">>,
                        !["urgency_band"] = <<"T", "h", "i", "s", "Q", "u", "a", "r", "t", "e", "r">>]

maxLead ==
    [EmptyLead EXCEPT !["company_domain"] = <<"e", "n", "t", "e", "r", "p", "r", "i", "s", "e", ".", "c", "o", "m">>,
                      !["contact_email"] = <<"c", "e", "o", "@", "e", "n", "t", "e", "r", "p", "r", "i", "s", "e", ".", "c", "o", "m">>,
                      !["company_employee_band"] = <<"1", "0", "0", "0", "+">>,
                      !["company_revenue_band"] = <<"2", "5", "0", "M", "+">>,
                      !["contact_role_seniority"] = <<"C", "-", "L", "e", "v", "e", "l">>,
                      !["company_industry"] = <<"S", "a", "a", "S">>,
                      !["lead_source"] = <<"D", "e", "m", "o", " ", "R", "e", "q", "u", "e", "s", "t">>,
                      !["primary_use_case"] = <<"E", "n", "t", "e", "r", "p", "r", "i", "s", "e", " ", "a", "u", "t", "o", "m", "a", "t", "i", "o", "n">>,
                      !["urgency_band"] = <<"T", "h", "i", "s", "M", "o", "n", "t", "h">>,
                      !["estimated_deal_band"] = <<"E", "n", "t", "e", "r", "p", "r", "i", "s", "e">>]

\* the (rawLead, enrichedLead) pairs a caller starts from
BaseLeadPairs ==
    { <<minimalLead, minimalLead>>,
      <<baseRawLead, testEnrichedLead>>,
      <<baseRawLead, baseRawLead>>,
      <<minimalLead, maxLead>> }

\* the values a caller may put in a field the scoring engine reads
FieldValues ==
    [f \in {"contact_email", "company_employee_band", "company_revenue_band",
            "contact_role_seniority", "contact_title_raw", "company_industry",
            "lead_source", "primary_use_case", "urgency_band",
            "estimated_deal_band", "company_region", "contact_geo"} |->
        CASE f = "contact_email" ->
                {Undefined, <<"j", "@", "G", "m", "a", "i", "l", ".", "c", "o", "m">>, <<"j", "o", "h", "n">>, <<"j", "@">>, <<"a", "l", "@", "c", "o", "r", "p", ".", "i", "o">>}
          [] f = "company_employee_band" ->
                {Undefined, <<"1", "-", "1", "0">>, <<"1", "0", "0", "0", "+">>, <<"H", "u", "g", "e">>}
          [] f = "company_revenue_band" ->
                {Undefined, <<"<", "1", "M">>, <<"2", "5", "0", "M", "+">>, <<"L", "o", "t", "s">>}
          [] f = "contact_role_seniority" ->
                {Undefined, <<>>, <<"I", "C">>, <<"C", "-", "L", "e", "v", "e", "l">>, <<"B", "o", "s", "s">>}
          [] f = "contact_title_raw" ->
                {Undefined, <<"D", "i", "r", "e", "c", "t", "o", "r", " ", "o", "f", " ", "S", "a", "l", "e", "s">>, <<"V", "P", " ", "S", "a", "l", "e", "s">>, <<"T", "e", "a", "m", " ", "L", "e", "a", "d">>, <<"I", "n", "t", "e", "r", "n">>}
          [] f = "company_industry" ->
                {Undefined, <<>>, <<"R", "e", "t", "a", "i", "l">>, <<"E", "d", "u", "c", "a", "t", "i", "o", "n">>, <<"F", "a", "r", "m", "i", "n", "g">>, <<"F", "i", "n", "T", "e", "c", "h">>}
          [] f = "lead_source" ->
                {Undefined, <<"W", "e", "b", "s", "i", "t", "e">>, <<"C", "o", "l", "d", " ", "C", "a", "l", "l">>, <<"R", "e", "f", "e", "r", "r", "a", "l">>}
          [] f = "primary_use_case" ->
                {Undefined, <<"L", "e", "a", "d", " ", "R", "o", "u", "t", "i", "n", "g">>, <<"B", "i", "l", "l", "i", "n", "g">>}
          [] f = "urgency_band" ->
                {Undefined, <<"E", "x", "p", "l", "o", "r", "i", "n", "g">>, <<"T", "h", "i", "s", "M", "o", "n", "t", "h">>, <<"S", "o", "m", "e", "d", "a", "y">>}
          [] f = "estimated_deal_band" ->
                {Undefined, <<"S", "m", "a", "l", "l">>, <<"E", "n", "t", "e", "r", "p", "r", "i", "s", "e">>, <<"M", "e", "g", "a">>}
          [] f = "company_region" ->
                {Undefined, <<>>, <<"R", "u", "s", "s", "i", "a">>, <<"C", "A", ",", " ", "U", "S">>}
          [] f = "contact_geo" ->
                {Undefined, <<"M", "o", "s", "c", "o", "w", ",", " ", "R", "U", "S", "S", "I", "A">>, <<"U", "S">>}]

\* a weight_overrides map giving the same weight to every listed key
weightsFor(keys, w) == [k \in keys |-> w]

TenantConfig(overrides, industries, regions, useCases, hot, warm) ==
    [scoring_version |-> "v1",
     weight_overrides |-> overrides,
     priority_industries |-> industries,
     excluded_regions |-> regions,
     priority_use_cases |-> useCases,
     hot_threshold |-> hot,
     warm_threshold |-> warm]

\* the tenant configurations of the exploration: the configurations of the
\* test suite, and configurations with weights of 0, 0.01, 0.5, 1.5, 3 and -1
TenantConfigs ==
    { NullConfig,
      TenantConfig(EmptyMap, <<>>, <<>>, <<>>, 90, 50),
      TenantConfig(EmptyMap, << <<"t", "e", "c", "h", "n", "o", "l", "o", "g", "y">> >>, <<>>, <<>>, 70, 40),
      TenantConfig(EmptyMap, <<>>, << <<"r", "u", "s", "s", "i", "a">> >>, <<>>, 70, 40),
      TenantConfig(weightsFor(SignalKeys, 0), << <<"R", "e", "t", "a", "i", "l">> >>, <<>>, <<>>, 70, 40),
      TenantConfig(weightsFor({"email_domain", "industry", "use_case"}, 1),
                   << <<"f", "a", "r", "m">>, <<"t", "e", "c", "h">> >>, << <<"R", "U">> >>, << <<"r", "o", "u", "t", "i", "n", "g">> >>, 60, 30),
      TenantConfig(weightsFor({"seniority", "company_size", "urgency"}, 50)
                       @@ weightsFor({"industry", "lead_source", "region_penalty"}, 150),
                   << <<"e", "d", "u", "c", "a", "t", "i", "o", "n">> >>, << <<"u", "s">> >>, <<>>, 40, 70),
      TenantConfig(weightsFor(SignalKeys, 300), << <<"s", "a", "a", "s">> >>, << <<"r", "u", "s", "s", "i", "a">>, <<"u", "s">> >>,
                   << <<"a", "u", "t", "o", "m", "a", "t", "i", "o", "n">> >>, 100, 0),
      TenantConfig(weightsFor(SignalKeys \ {"email_domain"}, -100)
                       @@ weightsFor({"bogus"}, 200),
                   <<>>, << <<"r", "u", "s", "s", "i", "a">> >>, << <<"b", "i", "l", "l", "i", "n", "g">> >>, 70, 40) }

\* the breakdown keys and values handed to computeDimensions
BreakdownKeys == SignalKeys \cup {"region_penalty", "bogus"}
BreakdownValues == {-20, 0, 8, 30, 120}

\* the thresholds handed to the tier classifier
Thresholds == {0, 40, 70, 90, 101}
TierConfigs ==
    { NullConfig } \cup
    { TenantConfig(EmptyMap, <<>>, <<>>, <<>>, h, w) : h \in Thresholds, w \in Thresholds }

----------------------------------------------------------------------------
(* Scoring calls *)

\* the record of a scoring call: the entry point and the input it scored
Call(entry, input) == [entry |-> entry, input |-> input]

ScoringIdle ==
    /\ rawLead = EmptyLead
    /\ enrichedLead = EmptyLead
    /\ tenantConfig = NullConfig
    /\ edits = 0
    /\ call = NoCall
    /\ result = NoResult

DimensionsIdle == dimInput = EmptyMap /\ dimOutput = NoDimensions

TierIdle == tierInput = [score |-> 0, tenantConfig |-> NullConfig] /\ tierOutput = NoTier

MergeIdle ==
    /\ mergeOriginal = EmptyLead
    /\ mergePartial = EmptyLead
    /\ mergeEdits = 0
    /\ merged = <<>>

ClassifyIdle ==
    /\ rawPayload = EmptyMap
    /\ payloadEdits = 0
    /\ classified = NoResult

BandsIdle == bandInput = EmptyMap /\ bandOutput = NoResult

\* nothing is in progress outside the scoring engine
PipelineIdle ==
    /\ supabaseConfigured = FALSE
    /\ tenantScoringConfig = NullConfig
    /\ reqs = <<>>
    /\ enrichCalls = {}
    /\ leadsTable = EmptyMap
    /\ scoringRunsTable = {}
    /\ baseWeights = BASE_WEIGHTS

ServiceIdle == MergeIdle /\ ClassifyIdle /\ BandsIdle /\ PipelineIdle

Init ==
    /\ \E p \in BaseLeadPairs : rawLead = p[1] /\ enrichedLead = p[2]
    /\ tenantConfig \in TenantConfigs
    /\ edits = 0
    /\ call = NoCall
    /\ result = NoResult
    /\ DimensionsIdle
    /\ TierIdle
    /\ ServiceIdle

\* the caller sets one field of the raw lead
SetRawField(f, v) ==
    /\ call = NoCall
    /\ edits < MaxEdits
    /\ v # rawLead[f]
    /\ rawLead' = [rawLead EXCEPT ![f] = v]
    /\ edits' = edits + 1
    /\ UNCHANGED <<enrichedLead, tenantConfig, call, result, dimVars, tierVars, serviceVars>>

\* the caller sets one field of the enriched lead
SetEnrichedField(f, v) ==
    /\ call = NoCall
    /\ edits < MaxEdits
    /\ v # enrichedLead[f]
    /\ enrichedLead' = [enrichedLead EXCEPT ![f] = v]
    /\ edits' = edits + 1
    /\ UNCHANGED <<rawLead, tenantConfig, call, result, dimVars, tierVars, serviceVars>>

\* scoreLeadDual({rawLead, enrichedLead, tenantConfig})
ScoreLeadDual ==
    /\ call = NoCall
    /\ call' = Call("scoreLeadDual", DualScoringInput(rawLead, enrichedLead, tenantConfig))
    /\ result' = scoreLeadDual(DualScoringInput(rawLead, enrichedLead, tenantConfig))
    /\ UNCHANGED <<rawLead, enrichedLead, tenantConfig, edits, dimVars, tierVars, serviceVars>>

\* scoreLead(enrichedLead, tenantConfig), the legacy entry point
ScoreLead ==
    /\ call = NoCall
    /\ call' = Call("scoreLead", DualScoringInput(enrichedLead, enrichedLead, tenantConfig))
    /\ result' = scoreLead(enrichedLead, tenantConfig)
    /\ UNCHANGED <<rawLead, enrichedLead, tenantConfig, edits, dimVars, tierVars, serviceVars>>

Next ==
    \/ \E f \in DOMAIN FieldValues : \E v \in FieldValues[f] : SetRawField(f, v)
    \/ \E f \in DOMAIN FieldValues : \E v \in FieldValues[f] : SetEnrichedField(f, v)
    \/ ScoreLeadDual
    \/ ScoreLead

Spec == Init /\ [][Next]_vars

----------------------------------------------------------------------------
(* Calls of computeDimensions on arbitrary breakdown maps *)

InitDimensions == ScoringIdle /\ DimensionsIdle /\ TierIdle /\ ServiceIdle

\* the caller adds one entry to the breakdown map
PutEntry(k, v) ==
    /\ dimOutput = NoDimensions
    /\ k \notin DOMAIN dimInput
    /\ Cardinality(DOMAIN dimInput) < MaxKeys
    /\ dimInput' = [x \in DOMAIN dimInput \cup {k} |-> IF x = k THEN v ELSE dimInput[x]]
    /\ UNCHANGED <<dimOutput, scoreVars, tierVars, serviceVars>>

ComputeDimensions ==
    /\ dimOutput = NoDimensions
    /\ dimOutput' = computeDimensions(dimInput)
    /\ UNCHANGED <<dimInput, scoreVars, tierVars, serviceVars>>

NextDimensions ==
    \/ \E k \in BreakdownKeys : \E v \in BreakdownValues : PutEntry(k, v)
    \/ ComputeDimensions

SpecDimensions == InitDimensions /\ [][NextDimensions]_vars

----------------------------------------------------------------------------
(* Tier classification of every score under every pair of thresholds *)

\* the tier computeScore gives a final score under the configuration
\* scoreLeadDual resolved
tierOf(score, config) ==
    LET resolved == resolveConfig(config) IN
    determineTier(score, resolved.hot_threshold, resolved.warm_threshold)

InitTier ==
    /\ ScoringIdle
    /\ DimensionsIdle
    /\ tierInput \in [score : MinScore..MaxScore, tenantConfig : TierConfigs]
    /\ tierOutput = NoTier
    /\ ServiceIdle

DetermineTier ==
    /\ tierOutput = NoTier
    /\ tierOutput' = tierOf(tierInput.score, tierInput.tenantConfig)
    /\ UNCHANGED <<tierInput, scoreVars, dimVars, serviceVars>>

NextTier == DetermineTier

SpecTier == InitTier /\ [][NextTier]_vars

----------------------------------------------------------------------------
(* Enrichment merge: mergeEnrichment(original, enriched) *)

\* a ?? b
nullish(a, b) == IF a = Undefined \/ a = Null THEN b ELSE a

\* mergeEnrichment taking the enriched value for every falsy original
mergeEnrichmentFalsy(original, enriched) ==
    [f \in LeadFields |->
        IF f = "company_domain" THEN original[f]
        ELSE IF Truthy(original[f]) THEN original[f] ELSE enriched[f]]

\* the object literal mergeEnrichment returns: company_domain is copied
\* from the original, every other field is original.f ?? enriched.f
mergeEnrichment(original, enriched) ==
    [f \in LeadFields |->
        IF f = "company_domain" THEN original[f]
        ELSE nullish(original[f], enriched[f])]

\* an enrichment result that has a value for every field
fullPartial == [f \in LeadFields |-> <<"f", "o", "u", "n", "d">>]

\* the enrichment result of the stub provider for a lead with a title
stubPartial ==
    [EmptyLead EXCEPT !["contact_role_seniority"] = <<"M", "a", "n", "a", "g", "e", "r">>,
                      !["contact_role_function"] = <<"S", "a", "l", "e", "s">>]

\* the values a caller may put in a field of the original record:
\* company_domain is a required string
OriginalValues ==
    [f \in LeadFields |->
        IF f = "company_domain" THEN {<<>>, <<"o", "w", "n", ".", "i", "o">>}
        ELSE {Undefined, Null, <<>>, <<"o", "w", "n">>}]

\* the values an enrichment provider may return for a field
PartialValues == {Undefined, Null, <<>>, <<"o", "t", "h", "e", "r">>}

InitMerge ==
    /\ ScoringIdle
    /\ DimensionsIdle
    /\ TierIdle
    /\ ClassifyIdle
    /\ BandsIdle
    /\ PipelineIdle
    /\ mergeOriginal \in {minimalLead, testEnrichedLead}
    /\ mergePartial \in {EmptyLead, stubPartial, fullPartial}
    /\ mergeEdits = 0
    /\ merged = <<>>

\* the caller sets one field of the original record
SetOriginalField(f, v) ==
    /\ merged = <<>>
    /\ mergeEdits < MaxMergeEdits
    /\ v # mergeOriginal[f]
    /\ mergeOriginal' = [mergeOriginal EXCEPT ![f] = v]
    /\ mergeEdits' = mergeEdits + 1
    /\ UNCHANGED <<mergePartial, merged, engineVars, classVars, bandVars, pipeVars>>

\* the provider sets one field of the enrichment result
SetPartialField(f, v) ==
    /\ merged = <<>>
    /\ mergeEdits < MaxMergeEdits
    /\ v # mergePartial[f]
    /\ mergePartial' = [mergePartial EXCEPT ![f] = v]
    /\ mergeEdits' = mergeEdits + 1
    /\ UNCHANGED <<mergeOriginal, merged, engineVars, classVars, bandVars, pipeVars>>

\* mergeEnrichment(mergeOriginal, mergePartial)
MergeEnrichment ==
    /\ merged = <<>>
    /\ merged' = <<mergeEnrichment(mergeOriginal, mergePartial)>>
    /\ UNCHANGED <<mergeOriginal, mergePartial, mergeEdits, engineVars, classVars, bandVars, pipeVars>>

\* mergeEnrichment(previous result, mergePartial)
MergeAgain ==
    /\ Len(merged) = 1
    /\ merged' = Append(merged, mergeEnrichment(merged[1], mergePartial))
    /\ UNCHANGED <<mergeOriginal, mergePartial, mergeEdits, engineVars, classVars, bandVars, pipeVars>>

NextMerge ==
    \/ \E f \in LeadFields : \E v \in OriginalValues[f] : SetOriginalField(f, v)
    \/ \E f \in LeadFields : \E v \in PartialValues : SetPartialField(f, v)
    \/ MergeEnrichment
    \/ MergeAgain

SpecMerge == InitMerge /\ [][NextMerge]_vars

----------------------------------------------------------------------------
(* JSON payloads: a payload is a function from its keys to JavaScript      *)
(* values; each kind of value is a record with a field of its own          *)

JUndefined == [undef |-> TRUE]
JNull == [null |-> TRUE]
NaN == [nan |-> TRUE]
JString(s) == [str |-> s]
JNumber(n) == [num |-> n]
JObject(o) == [obj |-> o]
JArray(a) == [arr |-> a]
JBoolean(b) == [bool |-> b]

isString(j) == "str" \in DOMAIN j
isNumber(j) == "num" \in DOMAIN j
isObject(j) == "obj" \in DOMAIN j
isArray(j) == "arr" \in DOMAIN j

\* the typeof operator
typeof(j) ==
    IF isString(j) THEN "string"
    ELSE IF isNumber(j) \/ j = NaN THEN "number"
    ELSE IF j = JUndefined THEN "undefined"
    ELSE IF "bool" \in DOMAIN j THEN "boolean"
    ELSE "object"

\* truthiness of a JavaScript value
jsTruthy(j) ==
    IF isString(j) THEN j.str # <<>>
    ELSE IF isNumber(j) THEN j.num # 0
    ELSE IF "bool" \in DOMAIN j THEN j.bool
    ELSE isObject(j) \/ isArray(j)

\* the value of a payload property read as a field of type string |
\* undefined: a string, null, or undefined
toField(j) ==
    IF isString(j) THEN j.str ELSE IF j = JNull THEN Null ELSE Undefined

\* obj[key], undefined when the object has no such property
prop(j, key) ==
    IF isObject(j) /\ key \in DOMAIN j.obj THEN j.obj[key] ELSE JUndefined

\* String.prototype.startsWith
startsWith(s, prefix) ==
    Len(s) >= Len(prefix) /\ SubSeq(s, 1, Len(prefix)) = prefix

\* s without the prefix, s itself when it does not start with it
dropPrefix(s, prefix) ==
    IF startsWith(s, prefix) THEN SubSeq(s, Len(prefix) + 1, Len(s)) ELSE s

\* the part of s before the first character that is in stops
upToFirst(s, stops) ==
    LET hits == {i \in 1..Len(s) : s[i] \in stops} IN
    IF hits = {} THEN s
    ELSE SubSeq(s, 1, (CHOOSE i \in hits : \A j \in hits : i <= j) - 1)

\* a || "" for a string or undefined a
orEmpty(v) == IF Truthy(v) THEN v ELSE <<>>

IsLowerAlnum(c) ==
    c \in {"a","b","c","d","e","f","g","h","i","j","k","l","m","n","o","p",
           "q","r","s","t","u","v","w","x","y","z",
           "0","1","2","3","4","5","6","7","8","9"}

\* name.toLowerCase().replace(/[^a-z0-9]/g, "") + ".com"
slugDomain(name) == SelectSeq(toLowerCase(name), IsLowerAlnum) \o <<".", "c", "o", "m">>

\* url.replace(/^(https?:\/\/)?(www\.)?/, "")
stripSchemeAndWww(url) ==
    dropPrefix(IF startsWith(url, <<"h", "t", "t", "p", "s", ":", "/", "/">>) THEN dropPrefix(url, <<"h", "t", "t", "p", "s", ":", "/", "/">>)
               ELSE dropPrefix(url, <<"h", "t", "t", "p", ":", "/", "/">>),
               <<"w", "w", "w", ".">>)

\* the host of an absolute URL scheme://host[:port][/path][?query][#hash]
urlHost(full) ==
    LET rest == IF startsWith(full, <<"h", "t", "t", "p", "s", ":", "/", "/">>) THEN dropPrefix(full, <<"h", "t", "t", "p", "s", ":", "/", "/">>)
                ELSE dropPrefix(full, <<"h", "t", "t", "p", ":", "/", "/">>)
    IN  upToFirst(rest, {"/", "?", "#", ":"})

\* new URL(full) succeeds: an http or https URL with a host of letters,
\* digits, dots and hyphens
urlParses(full) ==
    /\ startsWith(full, <<"h", "t", "t", "p", "s", ":", "/", "/">>) \/ startsWith(full, <<"h", "t", "t", "p", ":", "/", "/">>)
    /\ urlHost(full) # <<>>
    /\ \A i \in 1..Len(urlHost(full)) :
           IsLowerAlnum(toLowerCase(urlHost(full))[i]) \/ urlHost(full)[i] \in {".", "-"}

\* extractDomainFromUrl: the lowercased hostname without a leading "www.",
\* and in the catch branch the text up to the first "/"
extractDomainFromUrl(url) ==
    LET full == IF startsWith(url, <<"h", "t", "t", "p">>) THEN url ELSE <<"h", "t", "t", "p", "s", ":", "/", "/">> \o url IN
    IF urlParses(full)
    THEN dropPrefix(toLowerCase(urlHost(full)), <<"w", "w", "w", ".">>)
    ELSE upToFirst(stripSchemeAndWww(url), {"/"})

\* buildRegion(country, state)
buildRegion(country, state) ==
    IF Truthy(country) /\ Truthy(state) THEN state \o <<",", " ">> \o country
    ELSE IF Truthy(country) THEN country
    ELSE IF Truthy(state) THEN state
    ELSE Undefined

DigitChars == <<"0", "1", "2", "3", "4", "5", "6", "7", "8", "9">>
isDigit(c) == \E d \in 1..10 : DigitChars[d] = c
digitValue(c) == (CHOOSE d \in 1..10 : DigitChars[d] = c) - 1

RECURSIVE digitsValue(_)
\* the number written by a sequence of decimal digits
digitsValue(ds) ==
    IF ds = <<>> THEN 0
    ELSE 10 * digitsValue(SubSeq(ds, 1, Len(ds) - 1)) + digitValue(ds[Len(ds)])

\* the longest prefix of s made of decimal digits
digitPrefix(s) ==
    LET stops == {i \in 1..Len(s) : ~isDigit(s[i])} IN
    IF stops = {} THEN s
    ELSE SubSeq(s, 1, (CHOOSE i \in stops : \A j \in stops : i <= j) - 1)

RECURSIVE trimStart(_)
\* s without its leading spaces
trimStart(s) == IF s # <<>> /\ Head(s) = " " THEN trimStart(Tail(s)) ELSE s

\* parseInt(s, 10): leading spaces skipped, an optional sign, then the
\* longest run of digits; NaN when there is no digit
parseInt(s) ==
    LET t == trimStart(s)
        negative == t # <<>> /\ Head(t) = "-"
        body == IF t # <<>> /\ Head(t) \in {"-", "+"} THEN Tail(t) ELSE t
        digits == digitPrefix(body)
    IN  IF digits = <<>> THEN NaN
        ELSE JNumber(IF negative THEN 0 - digitsValue(digits) ELSE digitsValue(digits))

\* parseFloat(s) for a decimal numeral without exponent, truncated towards
\* zero: its callers only compare the value with integers by <
parseFloat(s) ==
    LET t == trimStart(s)
        negative == t # <<>> /\ Head(t) = "-"
        body == IF t # <<>> /\ Head(t) \in {"-", "+"} THEN Tail(t) ELSE t
        digits == digitPrefix(body)
        rest == SubSeq(body, Len(digits) + 1, Len(body))
        fraction == IF rest # <<>> /\ Head(rest) = "." THEN digitPrefix(Tail(rest))
                    ELSE <<>>
    IN  IF digits = <<>> /\ fraction = <<>> THEN NaN
        ELSE JNumber(IF negative THEN 0 - digitsValue(digits) ELSE digitsValue(digits))

RECURSIVE natToString(_)
\* Number.prototype.toString of a natural number
natToString(n) ==
    IF n < 10 THEN <<DigitChars[n + 1]>>
    ELSE natToString(n \div 10) \o <<DigitChars[(n % 10) + 1]>>

----------------------------------------------------------------------------
(* CRM mappers *)

\* a <= n and a < n on numbers: false when a is NaN
numLE(a, n) == isNumber(a) /\ a.num <= n
numLT(a, n) == isNumber(a) /\ a.num < n

\* the result of a mapper: the canonical record and the external id
Mapped(universal, externalId) == [universal |-> universal, externalId |-> externalId]

\* mapEmployeeCountToBand of the Salesforce mapper
sfMapEmployeeCountToBand(count) ==
    IF count = JUndefined \/ count = JNull THEN Undefined
    ELSE IF numLE(count, 10) THEN <<"1", "-", "1", "0">>
    ELSE IF numLE(count, 50) THEN <<"1", "1", "-", "5", "0">>
    ELSE IF numLE(count, 200) THEN <<"5", "1", "-", "2", "0", "0">>
    ELSE IF numLE(count, 1000) THEN <<"2", "0", "1", "-", "1", "0", "0", "0">>
    ELSE <<"1", "0", "0", "0", "+">>

\* mapRevenueToBand of the Salesforce mapper
sfMapRevenueToBand(revenue) ==
    IF revenue = JUndefined \/ revenue = JNull THEN Undefined
    ELSE IF numLT(revenue, 1000000) THEN <<"<", "1", "M">>
    ELSE IF numLT(revenue, 10000000) THEN <<"1", "-", "1", "0", "M">>
    ELSE IF numLT(revenue, 50000000) THEN <<"1", "0", "-", "5", "0", "M">>
    ELSE IF numLT(revenue, 250000000) THEN <<"5", "0", "-", "2", "5", "0", "M">>
    ELSE <<"2", "5", "0", "M", "+">>

\* mapEmployeeCountToBand of the HubSpot mapper
hsMapEmployeeCountToBand(count) ==
    IF count = JUndefined \/ count = JNull \/ count = NaN THEN Undefined
    ELSE IF numLE(count, 10) THEN <<"1", "-", "1", "0">>
    ELSE IF numLE(count, 50) THEN <<"1", "1", "-", "5", "0">>
    ELSE IF numLE(count, 200) THEN <<"5", "1", "-", "2", "0", "0">>
    ELSE IF numLE(count, 1000) THEN <<"2", "0", "1", "-", "1", "0", "0", "0">>
    ELSE <<"1", "0", "0", "0", "+">>

\* mapRevenueToBand of the HubSpot mapper
hsMapRevenueToBand(revenue) ==
    IF revenue = JUndefined \/ revenue = JNull \/ revenue = NaN THEN Undefined
    ELSE IF numLT(revenue, 1000000) THEN <<"<", "1", "M">>
    ELSE IF numLT(revenue, 10000000) THEN <<"1", "-", "1", "0", "M">>
    ELSE IF numLT(revenue, 50000000) THEN <<"1", "0", "-", "5", "0", "M">>
    ELSE IF numLT(revenue, 250000000) THEN <<"5", "0", "-", "2", "5", "0", "M">>
    ELSE <<"2", "5", "0", "M", "+">>

\* mapValueToDealBand of the Pipedrive mapper
mapValueToDealBand(value) ==
    IF value = JUndefined \/ value = JNull THEN Undefined
    ELSE IF numLT(value, 10000) THEN <<"S", "m", "a", "l", "l">>
    ELSE IF numLT(value, 100000) THEN <<"M", "i", "d">>
    ELSE <<"E", "n", "t", "e", "r", "p", "r", "i", "s", "e">>

\* a || b on values of type string | undefined | null
orElse(a, b) == IF Truthy(a) THEN a ELSE b

\* the domain of the Salesforce and HubSpot mappers: an if / else-if chain
\* on the email, the website and the company name
crmDomain(email, website, company) ==
    IF Truthy(email) THEN orEmpty(splitAt1(email))
    ELSE IF Truthy(website) THEN extractDomainFromUrl(website)
    ELSE IF Truthy(company) THEN slugDomain(company)
    ELSE <<>>

isSalesforcePayload(payload) ==
    \/ typeof(payload["LastName"]) = "string"
    \/ typeof(payload["Company"]) = "string"
    \/ typeof(payload["NumberOfEmployees"]) = "number"
    \/ typeof(payload["AnnualRevenue"]) = "number"
    \/ (typeof(payload["Id"]) = "string" /\ Len(payload["Id"].str) = 18)

mapSalesforceToUniversal(payload) ==
    LET sf == [k \in DOMAIN payload |-> toField(payload[k])]
        region == buildRegion(sf["Country"], sf["State"])
    IN  Mapped(
          [EmptyLead EXCEPT
             !["company_domain"] = crmDomain(sf["Email"], sf["Website"], sf["Company"]),
             !["company_name"] = sf["Company"],
             !["company_industry"] = sf["Industry"],
             !["company_employee_band"] =
                 sfMapEmployeeCountToBand(payload["NumberOfEmployees"]),
             !["company_revenue_band"] = sfMapRevenueToBand(payload["AnnualRevenue"]),
             !["company_region"] = region,
             !["contact_email"] = sf["Email"],
             !["contact_first_name"] = sf["FirstName"],
             !["contact_last_name"] = sf["LastName"],
             !["contact_title_raw"] = sf["Title"],
             !["contact_phone"] = sf["Phone"],
             !["contact_geo"] = region,
             !["lead_source"] = sf["LeadSource"]],
          orElse(sf["Id"], Null))

isHubSpotPayload(payload) ==
    \/ typeof(payload["vid"]) = "number"
    \/ typeof(payload["properties"]) = "object"
    \/ typeof(payload["firstname"]) = "string"
    \/ typeof(payload["lastname"]) = "string"
    \/ typeof(payload["jobtitle"]) = "string"
    \/ typeof(payload["lifecyclestage"]) = "string"
    \/ typeof(payload["hs_lead_status"]) = "string"

\* getValue(key) of the HubSpot mapper: properties[key].value when
\* properties[key] is there, else the flat property when it is a string
getValue(payload, key) ==
    LET nested == prop(payload["properties"], key) IN
    IF jsTruthy(payload["properties"]) /\ jsTruthy(nested)
    THEN toField(prop(nested, "value"))
    ELSE IF key \in DOMAIN payload /\ isString(payload[key]) THEN payload[key].str
    ELSE Undefined

mapHubSpotToUniversal(payload) ==
    LET email == getValue(payload, "email")
        website == getValue(payload, "website")
        company == getValue(payload, "company")
        employeeStr == getValue(payload, "numberofemployees")
        employeeCount == IF Truthy(employeeStr) THEN parseInt(employeeStr)
                         ELSE JUndefined
        revenueStr == getValue(payload, "annualrevenue")
        revenue == IF Truthy(revenueStr) THEN parseFloat(revenueStr) ELSE JUndefined
        region == buildRegion(getValue(payload, "country"), getValue(payload, "state"))
        externalId == IF isNumber(payload["vid"]) THEN natToString(payload["vid"].num)
                      ELSE IF isNumber(payload["id"]) /\ payload["id"].num # 0
                      THEN natToString(payload["id"].num)
                      ELSE orElse(toField(payload["id"]), Null)
    IN  Mapped(
          [EmptyLead EXCEPT
             !["company_domain"] = crmDomain(email, website, company),
             !["company_name"] = company,
             !["company_industry"] = getValue(payload, "industry"),
             !["company_employee_band"] = hsMapEmployeeCountToBand(employeeCount),
             !["company_revenue_band"] = hsMapRevenueToBand(revenue),
             !["company_region"] = region,
             !["contact_email"] = email,
             !["contact_first_name"] = getValue(payload, "firstname"),
             !["contact_last_name"] = getValue(payload, "lastname"),
             !["contact_title_raw"] = getValue(payload, "jobtitle"),
             !["contact_phone"] = getValue(payload, "phone"),
             !["contact_geo"] = region,
             !["lead_source"] = orElse(getValue(payload, "lifecyclestage"),
                                       getValue(payload, "hs_lead_status"))],
          externalId)

isPipedrivePayload(payload) ==
    \/ typeof(payload["person_id"]) = "number"
    \/ typeof(payload["org_id"]) = "number"
    \/ (typeof(payload["org_id"]) = "object" /\ payload["org_id"] # JNull)
    \/ typeof(payload["org_name"]) = "string"
    \/ typeof(payload["owner_id"]) = "number"
    \/ \E k \in {"email", "phone"} :
           /\ isArray(payload[k])
           /\ Len(payload[k].arr) > 0
           /\ prop(payload[k].arr[1], "value") # JUndefined

\* the primary email or phone of a Pipedrive person: the string itself, or
\* the value of the first entry marked primary, else of the first entry
primaryValue(j) ==
    IF isString(j) THEN j.str
    ELSE IF isArray(j) /\ Len(j.arr) > 0
    THEN LET marked == {i \in 1..Len(j.arr) : jsTruthy(prop(j.arr[i], "primary"))}
             entry == IF marked = {} THEN j.arr[1]
                      ELSE j.arr[CHOOSE i \in marked : \A m \in marked : i <= m]
         IN  toField(prop(entry, "value"))
    ELSE Undefined

\* the text after the first space of a name, undefined when it is empty:
\* parts.slice(1).join(" ") || undefined
afterFirstSpace(name) ==
    LET first == upToFirst(name, {" "}) IN
    IF Len(first) + 1 >= Len(name) THEN Undefined
    ELSE SubSeq(name, Len(first) + 2, Len(name))

mapPipedriveToUniversal(payload) ==
    LET email == primaryValue(payload["email"])
        phone == primaryValue(payload["phone"])
        companyName ==
            IF jsTruthy(payload["org_name"]) THEN toField(payload["org_name"])
            ELSE IF jsTruthy(prop(payload["org_id"], "name"))
            THEN toField(prop(payload["org_id"], "name"))
            ELSE IF jsTruthy(prop(payload["organization"], "name"))
            THEN toField(prop(payload["organization"], "name"))
            ELSE Undefined
        domain == IF Truthy(email) THEN orEmpty(splitAt1(email))
                  ELSE IF Truthy(companyName) THEN slugDomain(companyName)
                  ELSE <<>>
        first_name == toField(payload["first_name"])
        last_name == toField(payload["last_name"])
        name == toField(payload["name"])
        splitName == ~Truthy(first_name) /\ ~Truthy(last_name) /\ Truthy(name)
        externalId ==
            IF isNumber(payload["person_id"]) THEN natToString(payload["person_id"].num)
            ELSE IF isNumber(payload["id"]) THEN natToString(payload["id"].num)
            ELSE orElse(toField(payload["id"]), Null)
    IN  Mapped(
          [EmptyLead EXCEPT
             !["company_domain"] = domain,
             !["company_name"] = companyName,
             !["contact_email"] = email,
             !["contact_first_name"] =
                 IF splitName THEN upToFirst(name, {" "}) ELSE first_name,
             !["contact_last_name"] =
                 IF splitName THEN afterFirstSpace(name) ELSE last_name,
             !["contact_title_raw"] = toField(payload["title"]),
             !["contact_phone"] = phone,
             !["estimated_deal_band"] = mapValueToDealBand(payload["value"])],
          externalId)

\* mapRawToUniversal: the canonical fields passed through by name, the
\* domain taken from the email when company_domain is falsy
mapRawToUniversal(payload) ==
    LET given == toField(payload["company_domain"])
        email == toField(payload["contact_email"])
        domain == IF ~Truthy(given) /\ Truthy(email) THEN splitAt1(email) ELSE given
    IN  [f \in LeadFields |->
            IF f = "company_domain" THEN orEmpty(domain) ELSE toField(payload[f])]

\* the result of detectAndMap
Classified(source, mapped) ==
    [source |-> source, universalInput |-> mapped.universal,
     externalId |-> mapped.externalId]

\* detectAndMap testing the Pipedrive detector before the HubSpot detector
detectAndMapPipedriveFirst(payload) ==
    LET hintedSource == toField(payload["_source"]) IN
    IF hintedSource = <<"s", "a", "l", "e", "s", "f", "o", "r", "c", "e">> \/ isSalesforcePayload(payload)
    THEN Classified("salesforce", mapSalesforceToUniversal(payload))
    ELSE IF hintedSource = <<"p", "i", "p", "e", "d", "r", "i", "v", "e">> \/ isPipedrivePayload(payload)
    THEN Classified("pipedrive", mapPipedriveToUniversal(payload))
    ELSE IF hintedSource = <<"h", "u", "b", "s", "p", "o", "t">> \/ isHubSpotPayload(payload)
    THEN Classified("hubspot", mapHubSpotToUniversal(payload))
    ELSE Classified("api", Mapped(mapRawToUniversal(payload),
                                  orElse(toField(payload["external_id"]), Null)))

\* detectAndMap: each branch is taken on the hint or on the detector, in
\* the order Salesforce, HubSpot, Pipedrive, raw
detectAndMap(payload) ==
    LET hintedSource == toField(payload["_source"]) IN
    IF hintedSource = <<"s", "a", "l", "e", "s", "f", "o", "r", "c", "e">> \/ isSalesforcePayload(payload)
    THEN Classified("salesforce", mapSalesforceToUniversal(payload))
    ELSE IF hintedSource = <<"h", "u", "b", "s", "p", "o", "t">> \/ isHubSpotPayload(payload)
    THEN Classified("hubspot", mapHubSpotToUniversal(payload))
    ELSE IF hintedSource = <<"p", "i", "p", "e", "d", "r", "i", "v", "e">> \/ isPipedrivePayload(payload)
    THEN Classified("pipedrive", mapPipedriveToUniversal(payload))
    ELSE Classified("api", Mapped(mapRawToUniversal(payload),
                                  orElse(toField(payload["external_id"]), Null)))

----------------------------------------------------------------------------
(* Classification of request bodies: detectAndMap on payloads of every     *)
(* shape                                                                   *)

SalesforceKeys ==
    {"Id", "FirstName", "LastName", "Company", "Email", "Phone", "Title",
     "Industry", "NumberOfEmployees", "AnnualRevenue", "LeadSource", "State",
     "Country", "Website"}

HubSpotKeys ==
    {"vid", "id", "properties", "firstname", "lastname", "email", "phone",
     "jobtitle", "company", "industry", "numberofemployees", "annualrevenue",
     "state", "country", "website", "hs_lead_status", "lifecyclestage"}

PipedriveKeys ==
    {"id", "person_id", "org_id", "name", "first_name", "last_name", "email",
     "phone", "title", "org_name", "organization", "owner_id", "value"}

PayloadKeys ==
    SalesforceKeys \cup HubSpotKeys \cup PipedriveKeys \cup LeadFields
        \cup {"_source", "external_id"}

\* the request body with the given properties
Payload(props) ==
    [k \in PayloadKeys |-> IF k \in DOMAIN props THEN props[k] ELSE JUndefined]

\* a HubSpot nested property {value: s}
Nested(s) == JObject([value |-> JString(s)])

\* a Pipedrive contact entry {value: s, primary: b}
Entry(s, b) == JObject([value |-> JString(s), primary |-> JBoolean(b)])

\* the request bodies a caller starts from: the Salesforce scenario of the
\* documentation, a full Salesforce lead, a flat and a nested HubSpot
\* contact, a Pipedrive person, two canonical bodies, a body with the
\* marks of the three CRMs, and the empty body
BasePayloads ==
    { Payload(EmptyMap),
      Payload([LastName |-> JString(<<"D", "o", "e">>), Company |-> JString(<<"A", "c", "m", "e">>),
               NumberOfEmployees |-> JNumber(5000)]),
      Payload([Id |-> JString(<<"0", "0", "Q", "5", "e", "0", "0", "0", "0", "0", "A", "B", "C", "D", "E", "F", "G", "H">>), FirstName |-> JString(<<"J", "a", "n", "e">>),
               LastName |-> JString(<<"D", "o", "e">>), Company |-> JString(<<"A", "c", "m", "e", " ", "C", "o", "r", "p">>),
               Email |-> JString(<<"j", "a", "n", "e", "@", "a", "c", "m", "e", ".", "c", "o", "m">>), Title |-> JString(<<"V", "P", " ", "S", "a", "l", "e", "s">>),
               Industry |-> JString(<<"S", "o", "f", "t", "w", "a", "r", "e">>), NumberOfEmployees |-> JNumber(250),
               AnnualRevenue |-> JNumber(12000000), LeadSource |-> JString(<<"W", "e", "b">>),
               State |-> JString(<<"C", "A">>), Country |-> JString(<<"U", "S">>),
               Website |-> JString(<<"h", "t", "t", "p", "s", ":", "/", "/", "w", "w", "w", ".", "a", "c", "m", "e", ".", "c", "o", "m", "/", "a", "b", "o", "u", "t">>)]),
      Payload([firstname |-> JString(<<"S", "a", "m">>), company |-> JString(<<"H", "u", "b", " ", "&", " ", "C", "o">>),
               website |-> JString(<<"w", "w", "w", ".", "H", "u", "b", ".", "i", "o">>),
               numberofemployees |-> JString(<<"4", "5">>),
               annualrevenue |-> JString(<<"9", "9", "9", "9", "9", "9", ".", "5">>),
               hs_lead_status |-> JString(<<"O", "P", "E", "N">>)]),
      Payload([vid |-> JNumber(42),
               properties |-> JObject([email |-> Nested(<<"k", "i", "m", "@", "n", "e", "s", "t", ".", "c", "o">>),
                                       company |-> Nested(<<"N", "e", "s", "t">>),
                                       numberofemployees |-> Nested(<<"n", "/", "a">>),
                                       jobtitle |-> Nested(<<"C", "T", "O">>)]),
               email |-> JString(<<"f", "l", "a", "t", "@", "n", "e", "s", "t", ".", "c", "o">>)]),
      Payload([person_id |-> JNumber(7), name |-> JString(<<"P", "a", "t", " ", "L", "e", "e", " ", "J", "r">>),
               email |-> JArray(<<Entry(<<"x", "@", "p", "d", ".", "c", "o", "m">>, FALSE),
                                  Entry(<<"p", "a", "t", "@", "p", "i", "p", "e", ".", "c", "o", "m">>, TRUE)>>),
               org_id |-> JObject([value |-> JNumber(3), name |-> JString(<<"P", "i", "p", "e", " ", "L", "L", "C">>)]),
               value |-> JNumber(50000)]),
      Payload([company_domain |-> JString(<<"a", "c", "m", "e", ".", "c", "o", "m">>),
               contact_email |-> JString(<<"j", "o", "h", "n", "@", "a", "c", "m", "e", ".", "c", "o", "m">>),
               contact_title_raw |-> JString(<<"S", "a", "l", "e", "s", " ", "M", "a", "n", "a", "g", "e", "r">>),
               external_id |-> JString(<<"e", "x", "t", "-", "1">>)]),
      Payload([contact_email |-> JString(<<"a", "n", "n", "@", "s", "o", "l", "o", ".", "d", "e", "v">>),
               company_name |-> JString(<<"S", "o", "l", "o">>)]),
      Payload([Company |-> JString(<<"A", "c", "m", "e">>), firstname |-> JString(<<"A", "l">>),
               org_name |-> JString(<<"P", "i", "p", "e", " ", "L", "L", "C">>)]) }

\* the values a caller may give a property: values of the type the payload
\* interfaces declare for it, null, or nothing
PayloadValues ==
    [k \in PayloadKeys |->
        CASE k \in {"Email", "contact_email"} ->
                {JUndefined, JString(<<"j", "o", "h", "n">>), JString(<<"j", "@">>), JString(<<"a", "l", "@", "c", "o", "r", "p", ".", "i", "o">>)}
          [] k = "email" ->
                {JUndefined, JString(<<"j", "o", "h", "n">>), JString(<<"a", "l", "@", "c", "o", "r", "p", ".", "i", "o">>), JArray(<<>>),
                 JArray(<<Entry(<<"p", "@", "o", "r", "g", ".", "n", "e", "t">>, FALSE)>>)}
          [] k \in {"Website", "website"} ->
                {JUndefined, JString(<<"a", "c", "m", "e", ".", "i", "o", "/", "p", "r", "i", "c", "i", "n", "g">>),
                 JString(<<"h", "t", "t", "p", ":", "/", "/", "w", "w", "w", ".", "S", "h", "o", "p", ".", "c", "o", "m", ":", "8", "0", "8", "0", "/", "x">>), JString(<<"a", "c", "m", "e", " ", "c", "o", "r", "p">>)}
          [] k = "Id" -> {JUndefined, JString(<<"0", "0", "Q", "5", "e", "0", "0", "0", "0", "0", "A", "B", "C", "D", "E", "F", "G", "H">>), JString(<<"1", "2", "3">>)}
          [] k = "NumberOfEmployees" ->
                {JUndefined, JNull, JNumber(10), JNumber(11), JNumber(1001)}
          [] k = "AnnualRevenue" ->
                {JUndefined, JNumber(999999), JNumber(250000000)}
          [] k = "vid" -> {JUndefined, JNumber(0)}
          [] k = "id" -> {JUndefined, JString(<<"h", "s", "-", "9">>), JNumber(12)}
          [] k = "properties" ->
                {JUndefined, JNull, JObject(EmptyMap),
                 JObject([email |-> Nested(<<"n", "o", "d", "o", "m", "a", "i", "n">>), website |-> Nested(<<"n", "e", "s", "t", ".", "c", "o">>)])}
          [] k = "numberofemployees" ->
                {JUndefined, JString(<<>>), JString(<<"1", "0", "0", "0">>), JString(<<" ", "1", "2", " ", "s", "t", "a", "f", "f">>),
                 JString(<<"l", "o", "t", "s">>)}
          [] k = "annualrevenue" ->
                {JUndefined, JString(<<"1", "0", "0", "0", "0", "0", "0">>), JString(<<"4", "9", "9", "9", "9", "9", "9", "9", ".", "9", "9">>),
                 JString(<<"-", "5">>), JString(<<"n", "/", "a">>)}
          [] k \in {"person_id", "owner_id"} -> {JUndefined, JNumber(7)}
          [] k = "org_id" ->
                {JUndefined, JNull, JNumber(3), JObject([name |-> JString(<<"O", "r", "g", " ", "9">>)])}
          [] k = "organization" ->
                {JUndefined, JObject([name |-> JString(<<"U", "m", "b", "r", "e", "l", "l", "a">>)])}
          [] k = "phone" ->
                {JUndefined, JString(<<"5", "5", "5">>), JArray(<<Entry(<<"5", "5", "6">>, TRUE)>>)}
          [] k = "value" ->
                {JUndefined, JNumber(9999), JNumber(10000), JNumber(100000)}
          [] k = "company_domain" ->
                {JUndefined, JNull, JString(<<>>), JString(<<"r", "a", "w", ".", "o", "r", "g">>)}
          [] k = "company_tech_stack_summary" -> {JUndefined}
          [] k = "_source" ->
                {JUndefined, JString(<<"s", "a", "l", "e", "s", "f", "o", "r", "c", "e">>), JString(<<"h", "u", "b", "s", "p", "o", "t">>),
                 JString(<<"p", "i", "p", "e", "d", "r", "i", "v", "e">>), JString(<<"a", "p", "i">>), JString(<<"z", "o", "h", "o">>)}
          [] k \in {"Company", "company", "org_name", "name"} ->
                {JUndefined, JString(<<>>), JString(<<"O", "m", "n", "i", " ", "C", "o", "r", "p">>)}
          [] OTHER -> {JUndefined, JString(<<"T", "e", "x", "t">>)}]

InitClassify ==
    /\ ScoringIdle
    /\ DimensionsIdle
    /\ TierIdle
    /\ MergeIdle
    /\ BandsIdle
    /\ PipelineIdle
    /\ rawPayload \in BasePayloads
    /\ payloadEdits = 0
    /\ classified = NoResult

\* the caller sets one property of the request body
SetProperty(k, v) ==
    /\ classified = NoResult
    /\ payloadEdits < MaxPayloadEdits
    /\ v # rawPayload[k]
    /\ rawPayload' = [rawPayload EXCEPT ![k] = v]
    /\ payloadEdits' = payloadEdits + 1
    /\ UNCHANGED <<classified, engineVars, mergeVars, bandVars, pipeVars>>

\* detectAndMap(rawPayload)
DetectAndMap ==
    /\ classified = NoResult
    /\ classified' = detectAndMap(rawPayload)
    /\ UNCHANGED <<rawPayload, payloadEdits, engineVars, mergeVars, bandVars, pipeVars>>

NextClassify ==
    \/ \E k \in PayloadKeys : \E v \in PayloadValues[k] : SetProperty(k, v)
    \/ DetectAndMap

SpecClassify == InitClassify /\ [][NextClassify]_vars

----------------------------------------------------------------------------
(* The band functions of the Salesforce and the HubSpot mapper on numbers  *)

\* employee counts around every breakpoint, and the values that are not
\* numbers
CountInputs ==
    {JUndefined, JNull, NaN} \cup
    {JNumber(n) : n \in {0, 10, 11, 50, 51, 200, 201, 1000, 1001, 5000}}

\* revenues around every breakpoint, and the values that are not numbers
RevenueInputs ==
    {JUndefined, JNull, NaN} \cup
    {JNumber(n) : n \in {0, 999999, 1000000, 9999999, 10000000, 49999999,
                         50000000, 249999999, 250000000}}

InitBands ==
    /\ ScoringIdle
    /\ DimensionsIdle
    /\ TierIdle
    /\ MergeIdle
    /\ ClassifyIdle
    /\ PipelineIdle
    /\ bandInput \in [count : CountInputs, revenue : RevenueInputs]
    /\ bandOutput = NoResult

\* the four band functions applied to the input
MapBands ==
    /\ bandOutput = NoResult
    /\ bandOutput' =
         [sfEmployeeBand |-> sfMapEmployeeCountToBand(bandInput.count),
          hsEmployeeBand |-> hsMapEmployeeCountToBand(bandInput.count),
          sfRevenueBand |-> sfMapRevenueToBand(bandInput.revenue),
          hsRevenueBand |-> hsMapRevenueToBand(bandInput.revenue)]
    /\ UNCHANGED <<bandInput, engineVars, mergeVars, classVars, pipeVars>>

NextBands == MapBands

SpecBands == InitBands /\ [][NextBands]_vars

----------------------------------------------------------------------------
(* Enrichment service: the stub provider *)

\* inferSeniorityFromTitle
inferSeniorityFromTitle(title) ==
    LET titleLower == toLowerCase(title) IN
    IF someIncluded(cSuiteKeywords, titleLower) THEN <<"C", "-", "L", "e", "v", "e", "l">>
    ELSE IF someIncluded(vpKeywords, titleLower) THEN <<"V", "P">>
    ELSE IF someIncluded(directorKeywords, titleLower) THEN <<"D", "i", "r", "e", "c", "t", "o", "r">>
    ELSE IF someIncluded(<< <<"m", "a", "n", "a", "g", "e", "r">>, <<"l", "e", "a", "d">> >>, titleLower) THEN <<"M", "a", "n", "a", "g", "e", "r">>
    ELSE <<"I", "C">>

\* /rev\s*ops/ : "rev", any number of spaces, "ops"
matchesRevOps(s) ==
    \E i \in 1..(Len(s) - 5) : \E j \in (i + 3)..(Len(s) - 2) :
        /\ SubSeq(s, i, i + 2) = <<"r", "e", "v">>
        /\ \A k \in (i + 3)..(j - 1) : s[k] = " "
        /\ SubSeq(s, j, j + 2) = <<"o", "p", "s">>

\* inferFunctionFromTitle: the first regular expression that matches
inferFunctionFromTitle(title) ==
    LET t == toLowerCase(title) IN
    IF someIncluded(<< <<"s", "a", "l", "e", "s">>, <<"a", "c", "c", "o", "u", "n", "t", " ", "e", "x", "e", "c">>, <<"a", "e">>, <<"s", "d", "r">>, <<"b", "d", "r">>,
                       <<"b", "u", "s", "i", "n", "e", "s", "s", " ", "d", "e", "v">> >>, t) THEN <<"S", "a", "l", "e", "s">>
    ELSE IF someIncluded(<< <<"m", "a", "r", "k", "e", "t", "i", "n", "g">>, <<"g", "r", "o", "w", "t", "h">>, <<"d", "e", "m", "a", "n", "d", " ", "g", "e", "n">>, <<"c", "o", "n", "t", "e", "n", "t">> >>, t)
    THEN <<"M", "a", "r", "k", "e", "t", "i", "n", "g">>
    ELSE IF matchesRevOps(t)
            \/ someIncluded(<< <<"r", "e", "v", "e", "n", "u", "e", " ", "o", "p", "s">>, <<"s", "a", "l", "e", "s", " ", "o", "p", "s">>, <<"m", "o", "p", "s">> >>, t)
    THEN <<"R", "e", "v", "O", "p", "s">>
    ELSE IF someIncluded(<< <<"o", "p", "e", "r", "a", "t", "i", "o", "n", "s">>, <<"o", "p", "s", " ", "m", "a", "n", "a", "g", "e", "r">>, <<"s", "u", "p", "p", "l", "y", " ", "c", "h", "a", "i", "n">> >>, t)
    THEN <<"O", "p", "s">>
    ELSE IF someIncluded(<< <<"f", "i", "n", "a", "n", "c", "e">>, <<"a", "c", "c", "o", "u", "n", "t", "i", "n", "g">>, <<"c", "o", "n", "t", "r", "o", "l", "l", "e", "r">>, <<"f", "p", "&", "a">> >>, t)
    THEN <<"F", "i", "n", "a", "n", "c", "e">>
    ELSE IF someIncluded(<< <<"e", "n", "g", "i", "n", "e", "e", "r">>, <<"d", "e", "v", "e", "l", "o", "p", "e", "r">>, <<"d", "e", "v", "o", "p", "s">>, <<"i", "t">>, <<"t", "e", "c", "h">>,
                            <<"c", "t", "o">>, <<"a", "r", "c", "h", "i", "t", "e", "c", "t">> >>, t)
    THEN <<"I", "T">>
    ELSE IF someIncluded(<< <<"c", "e", "o">>, <<"f", "o", "u", "n", "d", "e", "r">>, <<"o", "w", "n", "e", "r">>, <<"p", "r", "e", "s", "i", "d", "e", "n", "t">>, <<"c", "o", "o">>,
                            <<"c", "f", "o">>, <<"c", "h", "i", "e", "f">> >>, t)
    THEN <<"F", "o", "u", "n", "d", "e", "r", "E", "x", "e", "c">>
    ELSE IF someIncluded(<< <<"l", "e", "g", "a", "l">>, <<"c", "o", "u", "n", "s", "e", "l">>, <<"c", "o", "m", "p", "l", "i", "a", "n", "c", "e">> >>, t) THEN <<"L", "e", "g", "a", "l">>
    ELSE <<"O", "t", "h", "e", "r">>

\* stubEnrichment(input): seniority and function inferred from the title
\* when the input has a title and lacks them
stubEnrichment(input) ==
    LET hasTitle == Truthy(input["contact_title_raw"]) IN
    [EmptyLead EXCEPT
       !["contact_role_seniority"] =
           IF ~Truthy(input["contact_role_seniority"]) /\ hasTitle
           THEN inferSeniorityFromTitle(input["contact_title_raw"]) ELSE Undefined,
       !["contact_role_function"] =
           IF ~Truthy(input["contact_role_function"]) /\ hasTitle
           THEN inferFunctionFromTitle(input["contact_title_raw"]) ELSE Undefined]

\* enrichLead(input): the data of the stub provider and its meta
enrichLead(input) ==
    [enrichedData |-> stubEnrichment(input), meta |-> [provider |-> "stub"]]

----------------------------------------------------------------------------
(* POST /enrich-lead: each request runs the handler from one await to the  *)
(* next; requests interleave at the awaits                                 *)

Requests == 1..MaxRequests

\* a value of randomUUID() or of a uuid default of the database: the kind
\* of the id and the request it was made for
Uuid(kind, r) == [uuid |-> kind, of |-> r]

\* an external id given by the CRM
ExternalKey(id) == [external |-> id]

NoRow == [none |-> TRUE]

\* res.status(code).json(body)
Response(code, body) == [status |-> code, body |-> body]

\* the validation of the handler with a test for undefined only
missingDomainUndefinedOnly(universalInput) ==
    universalInput["company_domain"] = Undefined

\* !universalInput.company_domain
missingDomain(universalInput) == ~Truthy(universalInput["company_domain"])

\* a request that has not arrived
IdleRequest ==
    [pc |-> "idle", body |-> NoResult, source |-> "none",
     universalInput |-> NoResult, externalId |-> Null, rawLead |-> NoResult,
     enrichedLead |-> NoResult, scoringResult |-> NoResult,
     persistedLead |-> NoRow, response |-> NoResult]

\* the request bodies of the exploration: a Salesforce lead whose email has
\* no domain, a canonical body with an external id and a canonical body with
\* a title only
PipelineBodies ==
    { Payload([LastName |-> JString(<<"D", "o", "e">>), Company |-> JString(<<"A", "c", "m", "e">>),
               Email |-> JString(<<"j", "o", "h", "n">>)]),
      Payload([company_domain |-> JString(<<"a", "c", "m", "e", ".", "c", "o", "m">>),
               contact_email |-> JString(<<"j", "o", "h", "n", "@", "a", "c", "m", "e", ".", "c", "o", "m">>),
               contact_title_raw |-> JString(<<"S", "a", "l", "e", "s", " ", "M", "a", "n", "a", "g", "e", "r">>),
               company_region |-> JString(<<"R", "u", "s", "s", "i", "a">>),
               external_id |-> JString(<<"e", "x", "t", "-", "1">>)]),
      Payload([company_domain |-> JString(<<"c", "o", "r", "p", ".", "i", "o">>),
               contact_title_raw |-> JString(<<"S", "e", "n", "i", "o", "r", " ", "E", "n", "g", "i", "n", "e", "e", "r">>)]) }

\* the configurations optionalTenantAuth may attach to a request
PipelineConfigs ==
    { getDefaultScoringConfig,
      TenantConfig(weightsFor({"seniority"}, 150), <<>>, << <<"r", "u", "s", "s", "i", "a">> >>, <<>>, 60, 10) }

InitPipeline ==
    /\ ScoringIdle
    /\ DimensionsIdle
    /\ TierIdle
    /\ MergeIdle
    /\ ClassifyIdle
    /\ BandsIdle
    /\ supabaseConfigured \in BOOLEAN
    /\ tenantScoringConfig \in [Requests -> IF supabaseConfigured THEN PipelineConfigs
                                           ELSE {getDefaultScoringConfig}]
    /\ reqs = [r \in Requests |-> IdleRequest]
    /\ enrichCalls = {}
    /\ leadsTable = EmptyMap
    /\ scoringRunsTable = {}
    /\ baseWeights = BASE_WEIGHTS

\* a snapshot taken from the record the enrichment has been merged into
rawSnapshotOfMerged(universalInput) ==
    mergeEnrichment(universalInput, enrichLead(universalInput).enrichedData)

\* const rawLead = { ...universalInput }: a copy of the mapped record, whose
\* fields are all strings
rawSnapshot(universalInput) == [f \in DOMAIN universalInput |-> universalInput[f]]

\* the handler up to its first await: detectAndMap, the validation of
\* company_domain, the raw snapshot and the call of enrichLead
Receive(r, body) ==
    /\ reqs[r].pc = "idle"
    /\ LET mapped == detectAndMap(body)
           arrived == [reqs[r] EXCEPT !.body = body,
                                      !.source = mapped.source,
                                      !.universalInput = mapped.universalInput,
                                      !.externalId = mapped.externalId]
       IN  IF missingDomain(mapped.universalInput)
           THEN /\ reqs' = [reqs EXCEPT ![r] =
                               [arrived EXCEPT !.pc = "responded",
                                               !.response = Response(400, NoResult)]]
                /\ UNCHANGED enrichCalls
           ELSE /\ reqs' = [reqs EXCEPT ![r] =
                               [arrived EXCEPT !.pc = "enriching",
                                               !.rawLead =
                                                   rawSnapshot(mapped.universalInput)]]
                /\ enrichCalls' = enrichCalls \cup {r}
    /\ UNCHANGED <<supabaseConfigured, tenantScoringConfig, baseWeights, leadsTable,
                   scoringRunsTable, engineVars, mergeVars, classVars, bandVars>>

\* EnrichReturns with scoreLeadDual assigning the overrides of the tenant to
\* the module-level object: Object.assign(BASE_WEIGHTS, config.weight_overrides)
EnrichReturnsAssigningBase(r) ==
    /\ reqs[r].pc = "enriching"
    /\ LET enrichmentResult == enrichLead(reqs[r].universalInput)
           merged1 == mergeEnrichment(reqs[r].universalInput,
                                      enrichmentResult.enrichedData)
       IN  reqs' = [reqs EXCEPT ![r] =
                      [@ EXCEPT !.pc = "upserting",
                                !.enrichedLead = merged1,
                                !.scoringResult =
                                    scoreLeadDual(DualScoringInput(
                                        reqs[r].rawLead, merged1, tenantScoringConfig[r]))]]
    /\ baseWeights' = mergeWeights(tenantScoringConfig[r].weight_overrides)
    /\ UNCHANGED <<supabaseConfigured, tenantScoringConfig, enrichCalls, leadsTable,
                   scoringRunsTable, engineVars, mergeVars, classVars, bandVars>>

\* enrichLead returns: the merge, the dual scoring and the call of
\* leads.upsertLead
EnrichReturns(r) ==
    /\ reqs[r].pc = "enriching"
    /\ LET enrichmentResult == enrichLead(reqs[r].universalInput)
           merged1 == mergeEnrichment(reqs[r].universalInput,
                                      enrichmentResult.enrichedData)
       IN  reqs' = [reqs EXCEPT ![r] =
                      [@ EXCEPT !.pc = "upserting",
                                !.enrichedLead = merged1,
                                !.scoringResult =
                                    scoreLeadDual(DualScoringInput(
                                        reqs[r].rawLead, merged1, tenantScoringConfig[r]))]]
    /\ UNCHANGED <<supabaseConfigured, tenantScoringConfig, baseWeights, enrichCalls, leadsTable,
                   scoringRunsTable, engineVars, mergeVars, classVars, bandVars>>

\* the key of the upsert: externalId || leadId
upsertKey(r) ==
    IF Truthy(reqs[r].externalId) THEN ExternalKey(reqs[r].externalId)
    ELSE Uuid("leadId", r)

\* the row the upsert of request r leaves in table leads
upsertedRow(r) ==
    [id |-> IF upsertKey(r) \in DOMAIN leadsTable THEN leadsTable[upsertKey(r)].id
            ELSE Uuid("leads.id", r),
     external_id |-> upsertKey(r),
     external_source |-> reqs[r].source,
     company_domain |-> reqs[r].enrichedLead["company_domain"],
     lead_score |-> reqs[r].scoringResult.enriched_score,
     lead_tier |-> reqs[r].scoringResult.enriched_tier,
     request |-> r]

\* leads.upsertLead returns null without a database, else the row written;
\* the handler then calls scoringRuns.recordScoringRun
UpsertReturns(r) ==
    /\ reqs[r].pc = "upserting"
    /\ IF supabaseConfigured
       THEN /\ leadsTable' =
                 [k \in DOMAIN leadsTable \cup {upsertKey(r)} |->
                     IF k = upsertKey(r) THEN upsertedRow(r) ELSE leadsTable[k]]
            /\ reqs' = [reqs EXCEPT ![r] = [@ EXCEPT !.pc = "recording",
                                                     !.persistedLead = upsertedRow(r)]]
       ELSE /\ UNCHANGED leadsTable
            /\ reqs' = [reqs EXCEPT ![r] = [@ EXCEPT !.pc = "recording"]]
    /\ UNCHANGED <<supabaseConfigured, tenantScoringConfig, baseWeights, enrichCalls,
                   scoringRunsTable, engineVars, mergeVars, classVars, bandVars>>

\* the database reports an error to leads.upsertLead, which throws: the
\* handler answers 500
UpsertFails(r) ==
    /\ reqs[r].pc = "upserting"
    /\ supabaseConfigured
    /\ reqs' = [reqs EXCEPT ![r] = [@ EXCEPT !.pc = "responded",
                                             !.response = Response(500, NoResult)]]
    /\ UNCHANGED <<supabaseConfigured, tenantScoringConfig, baseWeights, enrichCalls, leadsTable,
                   scoringRunsTable, engineVars, mergeVars, classVars, bandVars>>

\* the body of the 200 response
successBody(r) ==
    [lead_id |-> IF reqs[r].persistedLead = NoRow THEN Uuid("leadId", r)
                 ELSE reqs[r].persistedLead.id,
     scoring_run_id |-> Uuid("scoringRunId", r),
     enriched |-> reqs[r].enrichedLead,
     scoring |-> reqs[r].scoringResult]

\* the row recordScoringRun inserts: its id is given by the database
scoringRunRow(r) ==
    [id |-> Uuid("scoring_runs.id", r),
     lead_id |-> IF reqs[r].persistedLead = NoRow THEN NoRow
                 ELSE reqs[r].persistedLead.id,
     input_snapshot |-> reqs[r].enrichedLead,
     raw_score |-> reqs[r].scoringResult.raw_score,
     enriched_score |-> reqs[r].scoringResult.enriched_score,
     lift |-> reqs[r].scoringResult.lift,
     score |-> reqs[r].scoringResult.score,
     tier |-> reqs[r].scoringResult.tier,
     request |-> r]

\* scoringRuns.recordScoringRun returns null without a database, else the
\* row inserted; the handler then answers 200
RecordReturns(r) ==
    /\ reqs[r].pc = "recording"
    /\ scoringRunsTable' = IF supabaseConfigured
                           THEN scoringRunsTable \cup {scoringRunRow(r)}
                           ELSE scoringRunsTable
    /\ reqs' = [reqs EXCEPT ![r] = [@ EXCEPT !.pc = "responded",
                                             !.response = Response(200, successBody(r))]]
    /\ UNCHANGED <<supabaseConfigured, tenantScoringConfig, baseWeights, enrichCalls, leadsTable,
                   engineVars, mergeVars, classVars, bandVars>>

\* the database reports an error to recordScoringRun, which throws: the
\* handler answers 500
RecordFails(r) ==
    /\ reqs[r].pc = "recording"
    /\ supabaseConfigured
    /\ reqs' = [reqs EXCEPT ![r] = [@ EXCEPT !.pc = "responded",
                                             !.response = Response(500, NoResult)]]
    /\ UNCHANGED <<supabaseConfigured, tenantScoringConfig, baseWeights, enrichCalls, leadsTable,
                   scoringRunsTable, engineVars, mergeVars, classVars, bandVars>>

NextPipeline ==
    \/ \E r \in Requests : \E body \in PipelineBodies : Receive(r, body)
    \/ \E r \in Requests : EnrichReturns(r)
    \/ \E r \in Requests : UpsertReturns(r)
    \/ \E r \in Requests : UpsertFails(r)
    \/ \E r \in Requests : RecordReturns(r)
    \/ \E r \in Requests : RecordFails(r)

SpecPipeline == InitPipeline /\ [][NextPipeline]_vars

----------------------------------------------------------------------------
(* Properties of the scoring engine *)

\* the configuration in force in the recorded call
callConfig == resolveConfig(call.input.tenantConfig)

\* the sum of all values of a breakdown map
breakdownSum(breakdown) == SumOver(breakdown, DOMAIN breakdown)

\* some reason of the list was produced from the given template
hasReason(reasons, text) == \E i \in 1..Len(reasons) : reasons[i].text = text

\* C1: for every raw lead, enriched lead and tenant configuration,
\* scoreLeadDual returns 0 <= raw_score <= 100 and 0 <= enriched_score <= 100.
C1_ScoresWithinRange ==
    result # NoResult =>
        /\ result.raw_score \in 0..100
        /\ result.enriched_score \in 0..100

\* C1 witness: a call whose raw point sum is negative and whose enriched
\* point sum exceeds 100, so that both clamps act.
C1_BothClampsAct ==
    /\ result # NoResult
    /\ breakdownSum(result.raw_breakdown) < 0
    /\ breakdownSum(result.score_breakdown) > 100

\* C2: the lift returned by scoreLeadDual equals enriched_score minus
\* raw_score exactly, computed on the clamped scores; it may be negative.
C2_LiftIsDifference ==
    result # NoResult =>
        result.lift = result.enriched_score - result.raw_score

\* C2 witness: a call with a negative lift.
C2_NegativeLift == result # NoResult /\ result.lift < 0

\* C3: when rawLead and enrichedLead are identical records, and in every
\* call through the legacy scoreLead entry point, raw_score = enriched_score,
\* raw_tier = enriched_tier, raw_breakdown = score_breakdown and lift = 0.
C3_IdenticalRecordsNoLift ==
    (/\ result # NoResult
     /\ \/ call.input.rawLead = call.input.enrichedLead
        \/ call.entry = "scoreLead")
    => /\ result.raw_score = result.enriched_score
       /\ result.raw_tier = result.enriched_tier
       /\ result.raw_breakdown = result.score_breakdown
       /\ result.lift = 0

\* C3 witness: a legacy call on a lead that triggers the region penalty and
\* has positive signals.
C3_LegacyCallWithPenalty ==
    /\ result # NoResult
    /\ call.entry = "scoreLead"
    /\ "region_penalty" \in DOMAIN result.score_breakdown
    /\ result.enriched_score > 0

\* C4: in each phase the score is the sum of the values recorded in that
\* phase's breakdown map, clamped to 0..100; the maximal-signal lead of the
\* test suite under the default configuration has a point sum above 100 and
\* scores exactly 100.
C4_ScoreIsClampedSum ==
    result # NoResult =>
        /\ result.enriched_score
             = Max(0, Min(100, breakdownSum(result.score_breakdown)))
        /\ result.raw_score
             = Max(0, Min(100, breakdownSum(result.raw_breakdown)))
        /\ (call.input.enrichedLead = maxLead /\ call.input.tenantConfig = NullConfig)
             => /\ breakdownSum(result.score_breakdown) > 100
                /\ result.enriched_score = 100

\* C4 witness: the maximal-signal lead scored under the default
\* configuration.
C4_MaximalLeadScored ==
    /\ result # NoResult
    /\ call.input.enrichedLead = maxLead
    /\ call.input.tenantConfig = NullConfig

\* C5: the tier is Hot iff score >= hot_threshold, Warm iff score <
\* hot_threshold and score >= warm_threshold, Cold otherwise, so exactly one
\* of Hot, Warm, Cold is produced; with no tenant configuration the
\* thresholds are 70 and 40.
C5_TierFollowsThresholds ==
    tierOutput # NoTier =>
        LET score == tierInput.score
            config == tierInput.tenantConfig
            hot == IF config = NullConfig THEN 70 ELSE config.hot_threshold
            warm == IF config = NullConfig THEN 40 ELSE config.warm_threshold
        IN  /\ tierOutput \in {"Hot", "Warm", "Cold"}
            /\ tierOutput = "Hot" <=> score >= hot
            /\ tierOutput = "Warm" <=> (score < hot /\ score >= warm)
            /\ tierOutput = "Cold" <=> (score < hot /\ score < warm)

\* C5 witness: with no tenant configuration the score 40 is classified Warm.
C5_DefaultWarmAtForty ==
    /\ tierOutput = "Warm"
    /\ tierInput.tenantConfig = NullConfig
    /\ tierInput.score = 40

\* C6: the breakdown maps are sparse: for every lead and every tenant
\* configuration, weight overrides of 0 or small fractions included, no key
\* of score_breakdown or raw_breakdown has the value 0.
C6_BreakdownHasNoZero ==
    result # NoResult =>
        /\ \A k \in DOMAIN result.score_breakdown : result.score_breakdown[k] # 0
        /\ \A k \in DOMAIN result.raw_breakdown : result.raw_breakdown[k] # 0

\* a present field contains, case-insensitively, an entry of a tenant list
containsEntry(value, list) ==
    /\ value # Undefined
    /\ \E i \in 1..Len(list) : includes(toLowerCase(value), toLowerCase(list[i]))

\* C7: if company_region or contact_geo of the enriched record contains an
\* entry of excluded_regions, then score_breakdown.region_penalty = -20 and
\* the reasons contain an excluded-region reason, also when both fields are
\* present and only contact_geo matches.
C7_PenaltyOnEitherRegionField ==
    (/\ result # NoResult
     /\ \/ containsEntry(call.input.enrichedLead.company_region, callConfig.excluded_regions)
        \/ containsEntry(call.input.enrichedLead.contact_geo, callConfig.excluded_regions))
    => /\ "region_penalty" \in DOMAIN result.score_breakdown
       /\ result.score_breakdown["region_penalty"] = -20
       /\ hasReason(result.reasons, "Excluded region")

\* the value the breakdown holds for base points under the weight in force
weightedPoints(points, key) ==
    LET overrides == callConfig.weight_overrides
        weight == IF key \in DOMAIN overrides THEN overrides[key] ELSE 100
    IN  (2 * points * weight + 100) \div 200

\* C8: when company_industry contains an entry of priority_industries, the
\* industry signal is exactly 20 points before weighting, whether or not the
\* industry also matches the high-value or medium-value list, and the
\* reasons contain a priority-industry reason.
C8_PriorityIndustryIsTwenty ==
    result # NoResult =>
        /\ containsEntry(call.input.enrichedLead.company_industry,
                         callConfig.priority_industries)
             => /\ "industry" \in DOMAIN result.score_breakdown
                /\ result.score_breakdown["industry"] = weightedPoints(20, "industry")
                /\ hasReason(result.reasons, "Priority industry")
                /\ ~hasReason(result.reasons, "High-value industry")
                /\ ~hasReason(result.reasons, "Industry")
        /\ containsEntry(call.input.rawLead.company_industry,
                         callConfig.priority_industries)
             => /\ "industry" \in DOMAIN result.raw_breakdown
                /\ result.raw_breakdown["industry"] = weightedPoints(20, "industry")

\* C8 witness: an enriched industry that matches the priority list and the
\* high-value list at once.
C8_PriorityAndHighValue ==
    /\ result # NoResult
    /\ containsEntry(call.input.enrichedLead.company_industry,
                     callConfig.priority_industries)
    /\ someIncluded(HIGH_VALUE_INDUSTRIES,
                    toLowerCase(call.input.enrichedLead.company_industry))

\* the text after the "@" of an email with exactly one "@", else undefined
domainAfterAt(email) ==
    IF email = Undefined \/ Cardinality({i \in 1..Len(email) : email[i] = "@"}) # 1
    THEN Undefined
    ELSE LET at == CHOOSE i \in 1..Len(email) : email[i] = "@"
         IN  SubSeq(email, at + 1, Len(email))

\* the email rule of C9 for one phase: lead and the breakdown it produced
emailRule(lead, breakdown) ==
    LET domain == domainAfterAt(lead.contact_email) IN
    /\ (domain # Undefined /\ listIncludes(FREE_EMAIL_DOMAINS, toLowerCase(domain)))
         => "email_domain" \notin DOMAIN breakdown
    /\ (domain # Undefined /\ domain # <<>>
            /\ ~listIncludes(FREE_EMAIL_DOMAINS, toLowerCase(domain)))
         => /\ "email_domain" \in DOMAIN breakdown
            /\ breakdown["email_domain"] = weightedPoints(15, "email_domain")

\* C9: an email whose domain is in the free-email list, in any letter case,
\* never produces an email_domain key in score_breakdown or raw_breakdown;
\* an email with any other non-empty domain contributes 15 base points.
C9_FreeEmailNeverScores ==
    result # NoResult =>
        /\ emailRule(call.input.enrichedLead, result.score_breakdown)
        /\ emailRule(call.input.rawLead, result.raw_breakdown)

\* C9 witness: an enriched lead with a free-email address written with an
\* upper-case letter, recognised as a free email.
C9_MixedCaseFreeEmail ==
    /\ result # NoResult
    /\ call.input.enrichedLead.contact_email = <<"j", "@", "G", "m", "a", "i", "l", ".", "c", "o", "m">>
    /\ hasReason(result.reasons, "Free email")

\* C10: for every breakdown map passed to computeDimensions, each of fit,
\* intent and timing is an integer in 0..100.
C10_DimensionsWithinRange ==
    dimOutput # NoDimensions =>
        \A d \in {"fit", "intent", "timing"} : dimOutput[d] \in 0..100

\* C10 witness: a breakdown with a negative value only in one dimension and
\* a sum above the maximum in another.
C10_NegativeAndOverflowing ==
    /\ dimOutput # NoDimensions
    /\ DOMAIN dimInput = {"region_penalty", "urgency"}
    /\ dimInput["region_penalty"] < 0
    /\ dimInput["urgency"] > 100
    /\ dimOutput["fit"] = 0
    /\ dimOutput["timing"] = 100

----------------------------------------------------------------------------
(* Properties of the dimension aggregator, the result record and the reasons *)

\* the keys of the fixed signal -> dimension mapping
FitKeys == {"email_domain", "company_size", "revenue", "seniority",
            "industry", "region_penalty"}
IntentKeys == {"lead_source", "use_case", "deal_band"}
TimingKeys == {"urgency"}

\* sum of the values the breakdown holds under the keys
sumOfKeys(breakdown, keys) == SumOver(breakdown, keys \cap DOMAIN breakdown)

\* sum of the positive values the breakdown holds under the keys
sumOfPositiveKeys(breakdown, keys) ==
    SumOver(breakdown, {k \in keys \cap DOMAIN breakdown : breakdown[k] > 0})

\* round(min(100, sum / max * 100)), a half rounded up
roundedShare(sum, max) == (2 * Min(100 * max, sum * 100) + max) \div (2 * max)

C12_AliasesAreEnriched ==
    result # NoResult =>
        LET hot == callConfig.hot_threshold
            warm == callConfig.warm_threshold
            tier(s) == IF s >= hot THEN "Hot" ELSE IF s >= warm THEN "Warm" ELSE "Cold"
        IN  /\ result.score = result.enriched_score
            /\ result.tier = result.enriched_tier
            /\ result.enriched_tier = tier(result.enriched_score)
            /\ result.raw_tier = tier(result.raw_score)

\* C12 witness: a call whose raw point sum is negative and is classified
\* Warm as the score 0, while the enriched phase and the aliases are Hot.
C12_TiersDifferAcrossPhases ==
    /\ result # NoResult
    /\ breakdownSum(result.raw_breakdown) < 0
    /\ result.raw_tier = "Warm"
    /\ result.enriched_tier = "Hot"
    /\ result.tier = "Hot"
    /\ result.score = 100

\* the position in computeScore of the scorer that produces a reason
scorerRank(text) ==
    CASE text \in {"Free email", "Corporate email"} -> 1
      [] text = "Company size" -> 2
      [] text = "Revenue" -> 3
      [] text \in {"Seniority", "Title -> C-Level", "Title -> VP",
                   "Title -> Director", "Title -> Manager"} -> 4
      [] text \in {"Priority industry", "High-value industry", "Industry"} -> 5
      [] text = "Lead source" -> 6
      [] text \in {"Priority use case", "Use case provided"} -> 7
      [] text = "Urgency" -> 8
      [] text = "Deal size" -> 9
      [] text = "Excluded region" -> 10

\* C13: a raw-phase computeScore call returns an empty reasons list while
\* recording its point values in raw_breakdown, and the reasons of the
\* ScoringResult are exactly the enriched-phase reasons, in scorer order
\* (email, size, revenue, seniority, industry, lead source, use case,
\* urgency, deal band, region).
C13_ReasonsOnlyEnriched ==
    result # NoResult =>
        LET weights == mergeWeights(callConfig.weight_overrides)
            rawPhase == computeScore(call.input.rawLead, callConfig, weights, "raw")
            enrichedPhase == computeScore(call.input.enrichedLead, callConfig,
                                          weights, "enriched")
        IN  /\ rawPhase.reasons = <<>>
            /\ rawPhase.breakdown = result.raw_breakdown
            /\ result.reasons = enrichedPhase.reasons
            /\ \A i \in 1..(Len(result.reasons) - 1) :
                   scorerRank(result.reasons[i].text)
                       < scorerRank(result.reasons[i + 1].text)

\* C13 witness: a call whose raw phase records points, and whose enriched
\* phase gives one reason for each of the nine weighted scorers.
C13_RawPointsNineReasons ==
    /\ result # NoResult
    /\ call.input.rawLead # call.input.enrichedLead
    /\ result.raw_breakdown # EmptyMap
    /\ Len(result.reasons) = 9
    /\ {scorerRank(result.reasons[i].text) : i \in 1..9} = 1..9

\* a value that is neither undefined nor null
present(v) == v # Undefined /\ v # Null

\* C14: mergeEnrichment(original, partial) holds, for every field, the
\* original's value when it is present (an empty string counts as present)
\* and the partial's value otherwise; company_domain always equals
\* original.company_domain; merging the result again with the same partial
\* returns the same record.
C14_MergeFillsGaps ==
    merged # <<>> =>
        /\ \A f \in LeadFields :
               merged[1][f] = IF present(mergeOriginal[f]) THEN mergeOriginal[f]
                              ELSE mergePartial[f]
        /\ merged[1]["company_domain"] = mergeOriginal["company_domain"]
        /\ Len(merged) = 2 => merged[2] = merged[1]

\* C14 witness: a merge, made twice, of an original with an empty string
\* and an absent field, and a partial with values for both and another
\* company_domain.
C14_EmptyStringKeptGapFilled ==
    /\ Len(merged) = 2
    /\ \E f \in LeadFields :
           mergeOriginal[f] = <<>> /\ Truthy(mergePartial[f]) /\ merged[1][f] = <<>>
    /\ \E f \in LeadFields :
           ~present(mergeOriginal[f]) /\ Truthy(mergePartial[f])
               /\ merged[1][f] = mergePartial[f]
    /\ Truthy(mergePartial["company_domain"])
    /\ mergePartial["company_domain"] # mergeOriginal["company_domain"]

----------------------------------------------------------------------------
(* Properties of the classifier and the mappers *)

\* the source hint of the request body classified
sourceHint == toField(rawPayload["_source"])

hintedRecord(hint, body) ==
    IF hint = <<"s", "a", "l", "e", "s", "f", "o", "r", "c", "e">> THEN mapSalesforceToUniversal(body).universal
    ELSE IF hint = <<"h", "u", "b", "s", "p", "o", "t">> THEN mapHubSpotToUniversal(body).universal
    ELSE mapPipedriveToUniversal(body).universal

\* C16: a _source hint equal to a known source name overrides detection:
\* the returned source equals the hint and the record is the one of the
\* hinted mapper, even when the payload matches a higher-priority detector.
C16_HintOverridesDetection ==
    (/\ classified # NoResult
     /\ sourceHint \in {<<"s", "a", "l", "e", "s", "f", "o", "r", "c", "e">>, <<"h", "u", "b", "s", "p", "o", "t">>, <<"p", "i", "p", "e", "d", "r", "i", "v", "e">>})
    => /\ classified.source =
            (IF sourceHint = <<"s", "a", "l", "e", "s", "f", "o", "r", "c", "e">> THEN "salesforce"
             ELSE IF sourceHint = <<"h", "u", "b", "s", "p", "o", "t">> THEN "hubspot" ELSE "pipedrive")
       /\ classified.universalInput = hintedRecord(sourceHint, rawPayload)

\* the domain the derivation chain of C17 gives: the first of the email
\* domain, the website hostname and the company slug that is not empty
firstYielding(email, website, company) ==
    LET fromEmail == IF Truthy(email) THEN orEmpty(splitAt1(email)) ELSE <<>>
        fromWebsite == IF Truthy(website) THEN extractDomainFromUrl(website) ELSE <<>>
        fromCompany == IF Truthy(company) THEN slugDomain(company) ELSE <<>>
    IN  IF fromEmail # <<>> THEN fromEmail
        ELSE IF fromWebsite # <<>> THEN fromWebsite
        ELSE fromCompany

\* C17: in the Salesforce and HubSpot mappers company_domain is taken from
\* the highest-priority source that yields a value (email domain, website
\* hostname, company slug + ".com") and is empty only when none of the
\* three yields a value.
C17_DomainFromFirstYieldingSource ==
    classified # NoResult =>
        /\ classified.source = "salesforce" =>
               classified.universalInput["company_domain"]
                   = firstYielding(toField(rawPayload["Email"]),
                                   toField(rawPayload["Website"]),
                                   toField(rawPayload["Company"]))
        /\ classified.source = "hubspot" =>
               classified.universalInput["company_domain"]
                   = firstYielding(getValue(rawPayload, "email"),
                                   getValue(rawPayload, "website"),
                                   getValue(rawPayload, "company"))

\* the employee band of the breakpoints 10, 50, 200, 1000
employeeBandOf(count) ==
    IF ~isNumber(count) THEN Undefined
    ELSE IF count.num <= 10 THEN <<"1", "-", "1", "0">>
    ELSE IF count.num <= 50 THEN <<"1", "1", "-", "5", "0">>
    ELSE IF count.num <= 200 THEN <<"5", "1", "-", "2", "0", "0">>
    ELSE IF count.num <= 1000 THEN <<"2", "0", "1", "-", "1", "0", "0", "0">>
    ELSE <<"1", "0", "0", "0", "+">>

\* the revenue band of the breakpoints 1M, 10M, 50M, 250M
revenueBandOf(revenue) ==
    IF ~isNumber(revenue) THEN Undefined
    ELSE IF revenue.num < 1000000 THEN <<"<", "1", "M">>
    ELSE IF revenue.num < 10000000 THEN <<"1", "-", "1", "0", "M">>
    ELSE IF revenue.num < 50000000 THEN <<"1", "0", "-", "5", "0", "M">>
    ELSE IF revenue.num < 250000000 THEN <<"5", "0", "-", "2", "5", "0", "M">>
    ELSE <<"2", "5", "0", "M", "+">>

\* C18: the employee-count and revenue band mappings are the same function
\* in the Salesforce and the HubSpot mapper, with the breakpoints <= 10,
\* <= 50, <= 200, <= 1000 and < 1M, < 10M, < 50M, < 250M, and an undefined
\* or NaN input yields an undefined band in both mappers.
C18_SameBandsInBothMappers ==
    bandOutput # NoResult =>
        /\ bandOutput.sfEmployeeBand = employeeBandOf(bandInput.count)
        /\ bandOutput.hsEmployeeBand = employeeBandOf(bandInput.count)
        /\ bandOutput.sfRevenueBand = revenueBandOf(bandInput.revenue)
        /\ bandOutput.hsRevenueBand = revenueBandOf(bandInput.revenue)

\* the request has been received by the handler
arrived(r) == reqs[r].pc # "idle"

\* table leads or table scoring_runs holds a row written for the request
wroteRow(r) ==
    \/ \E k \in DOMAIN leadsTable : leadsTable[k].request = r
    \/ \E row \in scoringRunsTable : row.request = r
    \/ reqs[r].persistedLead # NoRow

\* C19: in the /enrich-lead pipeline, a request whose mapped record has an
\* empty company_domain ends with status 400, and no enrichment call, no
\* scoring, no lead upsert and no scoring-run record happens for it; every
\* request that reaches enrichment or scoring has a non-empty company_domain.
C19_NoDomainNoProcessing ==
    \A r \in Requests :
        arrived(r) =>
            /\ ~Truthy(reqs[r].universalInput["company_domain"])
                 => /\ reqs[r].pc = "responded"
                    /\ reqs[r].response.status = 400
                    /\ r \notin enrichCalls
                    /\ reqs[r].scoringResult = NoResult
                    /\ ~wroteRow(r)
            /\ (r \in enrichCalls \/ reqs[r].scoringResult # NoResult \/ wroteRow(r))
                 => /\ Truthy(reqs[r].universalInput["company_domain"])
                    /\ reqs[r].universalInput["company_domain"] # <<>>

\* C19 witness: a Salesforce lead whose company_domain is mapped to the empty
\* string has been refused with 400 while another request has been enriched,
\* scored, upserted and recorded.
C19_RefusedBesideRecorded ==
    \E r, q \in Requests :
        /\ reqs[r].pc = "responded"
        /\ reqs[r].source = "salesforce"
        /\ reqs[r].universalInput["company_domain"] = <<>>
        /\ reqs[r].response.status = 400
        /\ reqs[q].pc = "responded"
        /\ reqs[q].response.status = 200
        /\ q \in enrichCalls
        /\ \E row \in scoringRunsTable : row.request = q

\* the enum fields of a lead and the table of the values the engine scores
EnumTables ==
    [company_employee_band |-> employeeBandScores,
     company_revenue_band |-> revenueBandScores,
     contact_role_seniority |-> seniorityScores,
     urgency_band |-> urgencyScores,
     estimated_deal_band |-> dealScores]

\* the field holds a value that is not a member of its enum
unrecognized(lead, f) ==
    /\ lead[f] # Undefined
    /\ \A e \in EnumTables[f] : e[1] # lead[f]

\* the lead with every unrecognized enum value removed
withoutUnrecognized(lead) ==
    [f \in DOMAIN lead |->
        IF f \in DOMAIN EnumTables /\ unrecognized(lead, f) THEN Undefined ELSE lead[f]]

\* C20: an unrecognized value in an enum field (employee band, revenue band,
\* seniority, urgency, deal band) is treated exactly as if the field were
\* absent: the call returns what it returns for the lead without that value,
\* so that an unrecognized contact_role_seniority gives the seniority score
\* parsed from contact_title_raw.
C20_UnrecognizedEnumAsAbsent ==
    result # NoResult =>
        result = scoreLeadDual(DualScoringInput(
                     withoutUnrecognized(call.input.rawLead),
                     withoutUnrecognized(call.input.enrichedLead),
                     call.input.tenantConfig))

\* the seniority points of C21: the enum value when the enum is present,
\* else the first keyword group the lower-cased title contains
seniorityPoints(lead) ==
    IF Truthy(lead["contact_role_seniority"])
    THEN lookup(seniorityScores, lead["contact_role_seniority"])
    ELSE IF ~Truthy(lead["contact_title_raw"]) THEN 0
    ELSE LET title == toLowerCase(lead["contact_title_raw"]) IN
         IF someIncluded(cSuiteKeywords, title) THEN 30
         ELSE IF someIncluded(vpKeywords, title) THEN 20
         ELSE IF someIncluded(directorKeywords, title) THEN 15
         ELSE IF someIncluded(managerKeywords, title) THEN 10
         ELSE 0

\* the value a breakdown holds under a key, 0 when the key is missing
valueAt(breakdown, key) == IF key \in DOMAIN breakdown THEN breakdown[key] ELSE 0

\* the lead has no seniority enum and the title "Director of Sales"
directorOfSales(lead) ==
    /\ ~Truthy(lead["contact_role_seniority"])
    /\ lead["contact_title_raw"] = <<"D", "i", "r", "e", "c", "t", "o", "r", " ", "o", "f", " ", "S", "a", "l", "e", "s">>

\* the seniority rule of C21 for one phase
seniorityRule(lead, breakdown) ==
    /\ valueAt(breakdown, "seniority") = weightedPoints(seniorityPoints(lead), "seniority")
    /\ directorOfSales(lead)
         => valueAt(breakdown, "seniority") = weightedPoints(15, "seniority")

\* C21: the seniority signal is the enum's points ({IC:5, Manager:10,
\* Director:15, VP:20, C-Level:30}) when the enum is present, whatever the
\* title; else it is parsed from the lower-cased title: 30 for a C-suite
\* term, else 20 for a VP term, else 15 for director, else 10 for
\* manager/lead/senior, else 0; the title "Director of Sales" yields 15.
C21_SeniorityFromEnumOrTitle ==
    result # NoResult =>
        /\ seniorityRule(call.input.enrichedLead, result.score_breakdown)
        /\ seniorityRule(call.input.rawLead, result.raw_breakdown)

\* the industry points of C22 for a lead with no priority-industry match
industryPoints(lead) ==
    IF ~Truthy(lead["company_industry"]) THEN 0
    ELSE LET industry == toLowerCase(lead["company_industry"]) IN
         IF someIncluded(HIGH_VALUE_INDUSTRIES, industry) THEN 15
         ELSE IF someIncluded(MEDIUM_VALUE_INDUSTRIES, industry) THEN 8
         ELSE 0

\* company_industry is, in some letter case, an entry of the medium-value list
isMediumEntry(lead) ==
    /\ Truthy(lead["company_industry"])
    /\ listIncludes(MEDIUM_VALUE_INDUSTRIES, toLowerCase(lead["company_industry"]))

\* the industry rule of C22 for one phase
industryRule(lead, breakdown) ==
    ~containsEntry(lead["company_industry"], callConfig.priority_industries)
    => /\ valueAt(breakdown, "industry")
            = weightedPoints(industryPoints(lead), "industry")
       /\ isMediumEntry(lead)
            => valueAt(breakdown, "industry") = weightedPoints(8, "industry")

\* C22: with no priority-industry match the industry signal is 15 when
\* company_industry matches the high-value list, 8 when it matches the
\* medium-value list and 0 otherwise; every entry of the medium-value list,
\* given as company_industry, yields 8.
C22_IndustryHighMediumNone ==
    result # NoResult =>
        /\ industryRule(call.input.enrichedLead, result.score_breakdown)
        /\ industryRule(call.input.rawLead, result.raw_breakdown)

\* the base points the scorer of a weighted signal returns for a lead
basePoints(lead, key, phase) ==
    CASE key = "email_domain" -> scoreEmailDomain(lead, phase).score
      [] key = "company_size" -> scoreCompanySize(lead, phase).score
      [] key = "revenue" -> scoreRevenue(lead, phase).score
      [] key = "seniority" -> scoreSeniority(lead, phase).score
      [] key = "industry" ->
             scoreIndustry(lead, callConfig.priority_industries, phase).score
      [] key = "lead_source" -> scoreLeadSource(lead, phase).score
      [] key = "use_case" ->
             scoreUseCase(lead, callConfig.priority_use_cases, phase).score
      [] key = "urgency" -> scoreUrgency(lead, phase).score
      [] key = "deal_band" -> scoreDealBand(lead, phase).score

\* the weighting rule of C23 for one phase
weightingRule(lead, breakdown, score, phase) ==
    LET base == [k \in SignalKeys |-> basePoints(lead, k, phase)] IN
    /\ \A k \in SignalKeys :
          /\ valueAt(breakdown, k) = weightedPoints(base[k], k)
          /\ valueAt(breakdown, k) \in Int
          /\ k \notin DOMAIN callConfig.weight_overrides
               => valueAt(breakdown, k) = base[k]
    /\ score = Max(0, Min(100,
                 SumOver([k \in SignalKeys |-> weightedPoints(base[k], k)], SignalKeys)
                 + valueAt(breakdown, "region_penalty")))

\* C23: for each of the nine weighted signals the value recorded in the
\* breakdown and added to the score is round(base points x weight), the
\* weight being the weight_overrides entry of the signal key or 1.0 when the
\* key is not listed; with no override the value is the base points, and
\* every value is an integer.
C23_ValueIsRoundedWeightedPoints ==
    result # NoResult =>
        /\ weightingRule(call.input.enrichedLead, result.score_breakdown,
                         result.enriched_score, "enriched")
        /\ weightingRule(call.input.rawLead, result.raw_breakdown,
                         result.raw_score, "raw")

\* C23 witness: an industry worth 15 base points under the weight 1.5 is
\* recorded as 23, the half rounded up, beside an unlisted signal recorded
\* with its base points.
C23_HalfRoundedUp ==
    /\ result # NoResult
    /\ call.input.tenantConfig # NullConfig
    /\ "industry" \in DOMAIN callConfig.weight_overrides
    /\ callConfig.weight_overrides["industry"] = 150
    /\ basePoints(call.input.enrichedLead, "industry", "enriched") = 15
    /\ valueAt(result.score_breakdown, "industry") = 23
    /\ "email_domain" \notin DOMAIN callConfig.weight_overrides
    /\ valueAt(result.score_breakdown, "email_domain") = 15

\* the configuration of the call with its overrides restricted to the keys
configWithOverridesOn(keys) ==
    IF call.input.tenantConfig = NullConfig THEN NullConfig
    ELSE [call.input.tenantConfig EXCEPT
             !.weight_overrides =
                 [k \in DOMAIN callConfig.weight_overrides \cap keys |->
                     callConfig.weight_overrides[k]]]

\* the result of the recorded call under another configuration
resultUnder(config) ==
    scoreLeadDual(DualScoringInput(call.input.rawLead, call.input.enrichedLead, config))

\* one of the two region fields of the lead contains an excluded region
hasMatchingRegion(lead) ==
    \/ containsEntry(lead["company_region"], callConfig.excluded_regions)
    \/ containsEntry(lead["contact_geo"], callConfig.excluded_regions)

\* the penalty rule of C24 for one phase: a recorded penalty is -20, it is
\* recorded for a record with a matching region only, and it is the same
\* with no weight override at all
penaltyRule(lead, breakdown, unweighted) ==
    /\ "region_penalty" \in DOMAIN breakdown
         => /\ breakdown["region_penalty"] = -20
            /\ hasMatchingRegion(lead)
    /\ "region_penalty" \in DOMAIN breakdown <=> "region_penalty" \in DOMAIN unweighted

\* C24: weight overrides touch only the nine weighted signals: the region
\* penalty, when triggered, is exactly -20 in each phase whose record has a
\* matching region, whatever weight_overrides contains, an entry keyed
\* region_penalty included, and an override whose key is not one of the nine
\* signal keys leaves every field of the ScoringResult unchanged.
C24_OverridesLeavePenaltyAlone ==
    result # NoResult =>
        LET unweighted == IF DOMAIN callConfig.weight_overrides = {} THEN result
                          ELSE resultUnder(configWithOverridesOn({}))
        IN  /\ penaltyRule(call.input.enrichedLead, result.score_breakdown,
                           unweighted.score_breakdown)
            /\ penaltyRule(call.input.rawLead, result.raw_breakdown,
                           unweighted.raw_breakdown)
            /\ DOMAIN callConfig.weight_overrides \subseteq SignalKeys
                  \/ result = resultUnder(configWithOverridesOn(SignalKeys))

\* C24 witness: the penalty is triggered under overrides that list the key
\* region_penalty with the weight 1.5, and is recorded as -20.
C24_PenaltyUnderItsOwnOverride ==
    /\ result # NoResult
    /\ call.input.tenantConfig # NullConfig
    /\ "region_penalty" \in DOMAIN callConfig.weight_overrides
    /\ callConfig.weight_overrides["region_penalty"] = 150
    /\ "region_penalty" \in DOMAIN result.score_breakdown
    /\ result.score_breakdown["region_penalty"] = -20

\* the request has been scored under a configuration with no excluded
\* region and no weight override
scoredUnderDefaults(r) ==
    /\ reqs[r].scoringResult # NoResult
    /\ Len(tenantScoringConfig[r].excluded_regions) = 0
    /\ DOMAIN tenantScoringConfig[r].weight_overrides = {}

\* the documented scenario: the raw lead has only email and title, the
\* enrichment adds employee band, revenue band and urgency
scenarioResult ==
    LET raw == [EmptyLead EXCEPT !["company_domain"] = <<"a", "c", "m", "e", ".", "c", "o", "m">>,
                                 !["contact_email"] = <<"j", "o", "h", "n", "@", "a", "c", "m", "e", ".", "c", "o", "m">>,
                                 !["contact_title_raw"] = <<"S", "a", "l", "e", "s", " ", "M", "a", "n", "a", "g", "e", "r">>]
        partial == [EmptyLead EXCEPT !["company_employee_band"] = <<"2", "0", "1", "-", "1", "0", "0", "0">>,
                                     !["company_revenue_band"] = <<"5", "0", "-", "2", "5", "0", "M">>,
                                     !["urgency_band"] = <<"T", "h", "i", "s", "Q", "u", "a", "r", "t", "e", "r">>]
    IN  scoreLeadDual(DualScoringInput(raw, mergeEnrichment(raw, partial), NullConfig))

\* C25: enrichment that adds signals does not lower the score: when the
\* enriched lead is mergeEnrichment(rawLead, partial), the partial of the
\* stub enrichment included, under a configuration with no excluded region
\* and default weights, enriched_score >= raw_score, so the lift is not
\* negative; in the documented scenario raw_score < enriched_score and
\* lift > 0.
C25_EnrichmentNeverLowers ==
    /\ \A r \in Requests :
          scoredUnderDefaults(r) =>
              /\ reqs[r].scoringResult.enriched_score >= reqs[r].scoringResult.raw_score
              /\ reqs[r].scoringResult.lift >= 0
    /\ scenarioResult.raw_score < scenarioResult.enriched_score
    /\ scenarioResult.lift > 0

\* what the request holds is what the four functions return for its inputs
\* when they are called again in the current state
recomputes(r) ==
    /\ arrived(r) =>
          LET again == detectAndMap(reqs[r].body) IN
          /\ reqs[r].source = again.source
          /\ reqs[r].universalInput = again.universalInput
          /\ reqs[r].externalId = again.externalId
    /\ reqs[r].scoringResult # NoResult =>
          /\ reqs[r].enrichedLead
               = mergeEnrichment(reqs[r].universalInput,
                                 enrichLead(reqs[r].universalInput).enrichedData)
          /\ reqs[r].rawLead = reqs[r].universalInput
          /\ reqs[r].scoringResult
               = scoreLeadDual(DualScoringInput(reqs[r].rawLead, reqs[r].enrichedLead,
                                                tenantScoringConfig[r]))

\* two requests with identical inputs hold identical outputs
sameOutputs(r, q) ==
    /\ (arrived(r) /\ arrived(q) /\ reqs[r].body = reqs[q].body)
         => /\ reqs[r].source = reqs[q].source
            /\ reqs[r].universalInput = reqs[q].universalInput
            /\ reqs[r].externalId = reqs[q].externalId
    /\ (/\ reqs[r].scoringResult # NoResult
        /\ reqs[q].scoringResult # NoResult
        /\ reqs[r].body = reqs[q].body
        /\ tenantScoringConfig[r] = tenantScoringConfig[q])
         => /\ reqs[r].enrichedLead = reqs[q].enrichedLead
            /\ reqs[r].scoringResult = reqs[q].scoringResult

\* C26: classification, mapping, merge and scoring are pure and
\* deterministic: two invocations on identical inputs return identical
\* outputs, no invocation modifies its inputs or the shared base-weight
\* table, and the result of an invocation is the same whatever other
\* invocations run before it or interleaved with it.
C26_PureAndDeterministic ==
    /\ baseWeights = BASE_WEIGHTS
    /\ \A r \in Requests : recomputes(r)
    /\ \A r, q \in Requests : sameOutputs(r, q)

\* C26 witness: two requests with the same body and the same tenant
\* configuration with a weight override have both been scored, one of them
\* while the other was already past its scoring.
C26_SameBodyScoredTwice ==
    \E r, q \in Requests :
        /\ r # q
        /\ reqs[r].body = reqs[q].body
        /\ tenantScoringConfig[r] = tenantScoringConfig[q]
        /\ DOMAIN tenantScoringConfig[r].weight_overrides # {}
        /\ reqs[r].pc = "responded"
        /\ reqs[r].scoringResult # NoResult
        /\ reqs[q].pc = "upserting"
        /\ reqs[q].scoringResult = reqs[r].scoringResult

\* the raw phase of a result: what was scored from the raw lead
rawPhase(res) ==
    [raw_score |-> res.raw_score, raw_tier |-> res.raw_tier,
     raw_breakdown |-> res.raw_breakdown]

\* C27: in the /enrich-lead pipeline the raw snapshot is captured before the
\* enrichment call and never changed afterwards: in every state after the
\* call, the snapshot and the record scored in the raw phase equal the
\* mapper's output field for field, whatever other requests do during the
\* await, and the enriched record agrees with the snapshot on every field
\* the snapshot has present.
C27_RawSnapshotIsMapperOutput ==
    \A r \in Requests :
        LET mapperOutput == detectAndMap(reqs[r].body).universalInput IN
        /\ r \in enrichCalls =>
              \A f \in LeadFields : reqs[r].rawLead[f] = mapperOutput[f]
        /\ reqs[r].scoringResult # NoResult =>
              /\ rawPhase(reqs[r].scoringResult)
                   = rawPhase(scoreLead(mapperOutput, tenantScoringConfig[r]))
              /\ \A f \in LeadFields :
                    present(reqs[r].rawLead[f])
                        => reqs[r].enrichedLead[f] = reqs[r].rawLead[f]

\* C27 witness: a request whose enrichment filled a field the snapshot
\* lacks has been scored while another request was waiting for its own
\* enrichment.
C27_EnrichedDiffersFromSnapshot ==
    \E r, q \in Requests :
        /\ reqs[r].scoringResult # NoResult
        /\ ~present(reqs[r].rawLead["contact_role_seniority"])
        /\ present(reqs[r].enrichedLead["contact_role_seniority"])
        /\ reqs[r].scoringResult.raw_score # reqs[r].scoringResult.enriched_score
        /\ reqs[q].pc = "enriching"

\* the scoring-run rows recorded for the request
runsOf(r) == {row \in scoringRunsTable : row.request = r}

\* C28: the scoring_run_id returned in a successful /enrich-lead response is
\* the id of the scoring-run audit record persisted for that request:
\* whenever a scoring run was recorded, response.scoring_run_id equals the
\* id of that record.
C28_ResponseNamesItsAuditRecord ==
    \A r \in Requests :
        (reqs[r].pc = "responded" /\ reqs[r].response.status = 200)
            => \A row \in runsOf(r) : reqs[r].response.body.scoring_run_id = row.id

\* the request has ended and the upsert of its lead has succeeded
endedWithLeadStored(r) ==
    /\ reqs[r].pc = "responded"
    /\ reqs[r].persistedLead # NoRow

\* C29: every scoring decision that is persisted has an audit record: with
\* the database configured, no request ends, with success or with an error
\* response, with its lead upserted and no scoring-run record; the upsert
\* precedes the scoring-run insert, and the 200 response is sent only after
\* both succeeded.
C29_StoredLeadHasAuditRecord ==
    supabaseConfigured =>
        \A r \in Requests :
            /\ endedWithLeadStored(r) => runsOf(r) # {}
            /\ runsOf(r) # {} => reqs[r].persistedLead # NoRow
            /\ (reqs[r].pc = "responded" /\ reqs[r].response.status = 200)
                 => (reqs[r].persistedLead # NoRow /\ runsOf(r) # {})

\* the fields of a result that C30 says depend on the enriched lead only
enrichedSide(res) ==
    [score |-> res.score, tier |-> res.tier, enriched_score |-> res.enriched_score,
     enriched_tier |-> res.enriched_tier, score_breakdown |-> res.score_breakdown,
     dimensions |-> res.dimensions, reasons |-> res.reasons]

\* a lead to put in the place of a record of the call, different from it
otherLead(lead) == IF lead = maxLead THEN testEnrichedLead ELSE maxLead

\* C30: phase independence of scoreLeadDual: two calls that differ only in
\* rawLead return the same score, tier, enriched_score, enriched_tier,
\* score_breakdown, dimensions and reasons, and two calls that differ only in
\* enrichedLead return the same raw_score, raw_tier and raw_breakdown.
C30_PhasesAreIndependent ==
    (result # NoResult /\ call.entry = "scoreLeadDual") =>
        /\ enrichedSide(scoreLeadDual(DualScoringInput(
               otherLead(call.input.rawLead), call.input.enrichedLead,
               call.input.tenantConfig)))
             = enrichedSide(result)
        /\ rawPhase(scoreLeadDual(DualScoringInput(
               call.input.rawLead, otherLead(call.input.enrichedLead),
               call.input.tenantConfig)))
             = rawPhase(result)

\* C30 witness: a dual call on two different records whose phases give
\* different scores and different breakdowns.
C30_PhasesDiffer ==
    /\ result # NoResult
    /\ call.entry = "scoreLeadDual"
    /\ call.input.rawLead # call.input.enrichedLead
    /\ result.lift # 0
    /\ result.raw_breakdown # result.score_breakdown
    /\ result.raw_tier # result.enriched_tier

====
